---- MODULE Spec2Model ----
(***************************************************************************)
(* Frame orchestration of the engine's Vulkan renderer: the per-slot fence *)
(* ring (SyncObjects), the frame tick (Renderer::draw, App::draw_frame),   *)
(* the swapchain rebuild (recreate_swapchain, cleanup_swapchain) and the   *)
(* shutdown (Renderer::destroy).  The CPU thread is a program counter pc   *)
(* that walks through the calls of one tick; the GPU completes submitted   *)
(* work asynchronously; the presentation surface changes asynchronously.   *)
(***************************************************************************)
EXTENDS Integers, Sequences, FiniteSets, TLC

\* ------------------------------------------------------------------ bounds

\* Surface changes and resize notifications the environment may issue.
MaxEvents == 3

\* The largest image count a driver hands back for a new swapchain.
MaxImages == 3

\* The largest width and height of a surface.
MaxExtent == 2

\* The longest list of formats or present modes a surface reports.
MaxListLen == 2

\* ------------------------------------------------------- program constants

MAX_FRAMES_IN_FLIGHT == 2

Slots == 0 .. (MAX_FRAMES_IN_FLIGHT - 1)

\* u32::max_value() on the scale of the model, above every width a surface
\* or a window takes: the width of current_extent when the surface leaves
\* the extent to the swapchain.
U32_MAX == MaxExtent + 2

\* Value of draw's local image_index before acquire has returned one.
NoImage == 0 - 1

\* ------------------------------------------------------------------- state

VARIABLES
    pc,                      \* position of the CPU thread
    from,                    \* who called recreate_swapchain / cleanup_swapchain
    current_frame,           \* Renderer.current_frame (slot index)
    is_framebuffer_resized,  \* Renderer.is_framebuffer_resized
    image_index,             \* draw's local image_index (NoImage outside)
    image_gen,               \* generation of the swapchain image_index came from
    acquired,                \* what acquire_next_image returned in this tick
    result,                  \* what queue_present returned in this tick
    present_reported,        \* worst result present has reported for this swapchain
    acquire_reported,        \* [result, ticks]: acquire has returned this swapchain
                             \* suboptimal, and the ticks that have ended since
    in_flight_fences,        \* slot -> fence signaled?
    pending,                 \* submissions the GPU has not completed
    swapchain,               \* [gen, images, imageviews, framebuffers, alive]
    buffers,                 \* command_pool.buffers: number of command buffers
    recorded,                \* number of command buffers recorded since allocation
    chain,                   \* how the swapchain matches the surface
    events,                  \* environment events issued so far
    args,                    \* draw's arguments of this tick: which index selected what
    targets,                 \* render pass, pipeline, attachment images, framebuffers, render area
    swapchain_new,           \* SwapChain::new in progress: its inputs and create info
    live,                    \* kind of target-dependent object -> how many of them are live
    surface_extent,          \* client area of the window when SwapChain::new last queried it
    sync_objects,            \* Renderer.sync_objects: the handles of the ring, how often made and destroyed
    command_buffers,         \* command_pool.buffers: index -> the commands recorded into the buffer
    per_image,               \* App: how many uniform buffers and descriptor sets App::new made (Renderer: 0)
    handles,                 \* kind -> per generation created, how often the handle has been destroyed
    presentation_engine,     \* [deferred, waits]: the presents whose semaphore wait has not executed
    image_available_semaphores, \* slot -> state of the image-available semaphore of the slot
    waited,                  \* what wait_for_fences returned in this tick
    sample_counts,           \* [color, depth, chosen]: the sample-count masks of the device and the count chosen
    calls                    \* API calls of the current operation, in order

vars == << pc, from, current_frame, is_framebuffer_resized, image_index,
           image_gen, acquired, result, present_reported, acquire_reported,
           in_flight_fences, pending, swapchain, buffers, recorded, chain,
           events, args, targets, swapchain_new, live, surface_extent,
           sync_objects, command_buffers, per_image, handles,
           presentation_engine, image_available_semaphores, waited,
           sample_counts, calls >>

ChainStates == {"ok", "suboptimal", "out_of_date"}

\* ---------------------------------------------------------------- helpers

\* Remove element i of a sequence.
RemoveAt(s, i) == SubSeq(s, 1, i - 1) \o SubSeq(s, i + 1, Len(s))

\* Position of the last occurrence of call c in log s (0 when absent).
LastIndexOf(s, c) ==
    IF \E i \in 1 .. Len(s) : s[i] = c
    THEN CHOOSE i \in 1 .. Len(s) :
            s[i] = c /\ \A j \in (i + 1) .. Len(s) : s[j] # c
    ELSE 0

\* Position of the first occurrence of call c in log s (0 when absent).
FirstIndexOf(s, c) ==
    IF \E i \in 1 .. Len(s) : s[i] = c
    THEN CHOOSE i \in 1 .. Len(s) :
            s[i] = c /\ \A j \in 1 .. (i - 1) : s[j] # c
    ELSE 0

Called(c) == \E i \in 1 .. Len(calls) : calls[i] = c

CountCalls(c) == Cardinality({i \in 1 .. Len(calls) : calls[i] = c})

\* ------------------------------------------------------------ SyncObjects

\* Mutant: the fences created without FenceCreateFlags::SIGNALED.
SyncObjectsNewUnsignaled == [s \in Slots |-> FALSE]

\* SyncObjects::new: every fence is created with FenceCreateFlags::SIGNALED.
SyncObjectsNew == [s \in Slots |-> TRUE]

\* The ring of K slots (two semaphores and a fence each) SyncObjects::new
\* returns: its handles (the ring made first has handles 0), and how often a
\* ring has been created and destroyed.
SyncObjectsHandles == [handles |-> 0, created |-> 1, destroyed |-> 0]

\* SyncObjects::destroy: destroys the semaphores and the fence of every slot.
SyncObjectsDestroy(so) == [so EXCEPT !.destroyed = @ + 1]

\* Mutant: recreate_swapchain destroys the ring and makes a new one.
SyncObjectsRebuilt(so) ==
    [handles |-> so.handles + 1, created |-> so.created + 1,
     destroyed |-> so.destroyed + 1]

\* Renderer.sync_objects after recreate_swapchain, which has no statement
\* that names it.
SyncObjectsAfterRecreate(so) == so

\* --------------------------------------------------------------- SwapChain

Min(a, b) == IF a < b THEN a ELSE b

\* Surface capabilities the platform may report: min_image_count >= 1,
\* max_image_count = 0 (no limit) or >= min_image_count.
Capabilities ==
    { c \in [min_image_count : 1 .. (MaxImages - 1), max_image_count : 0 .. MaxImages] :
        c.max_image_count = 0 \/ c.max_image_count >= c.min_image_count }

\* SwapChain::new: image_count = min_image_count + 1, capped by
\* max_image_count when that is not 0.
ImageCount(caps) ==
    IF caps.max_image_count > 0
    THEN Min(caps.min_image_count + 1, caps.max_image_count)
    ELSE caps.min_image_count + 1

\* get_swapchain_images: the driver creates at least min_image_count
\* (the requested count) images.
SwapchainImages(caps) ==
    ImageCount(caps) ..
        (IF caps.max_image_count > 0 THEN caps.max_image_count ELSE MaxImages)

\* vk::Extent2D
Extent2D(w, h) == [width |-> w, height |-> h]

\* capabilities.current_extent of a surface whose extent the swapchain
\* determines.
UndefinedExtent == Extent2D(U32_MAX, U32_MAX)

Extents == {Extent2D(w, h) : w \in 0 .. MaxExtent, h \in 0 .. MaxExtent}

\* The extent e lies within [lo, hi] in both dimensions.
WithinExtents(e, lo, hi) ==
    /\ lo.width <= e.width /\ e.width <= hi.width
    /\ lo.height <= e.height /\ e.height <= hi.height

\* The extents of the surface capabilities the platform may report:
\* min_image_extent <= max_image_extent, and current_extent is either the
\* special value (then min_image_extent is not 0) or lies within them; a
\* minimized window reports 0 x 0 for all three.
ExtentCapabilities ==
    { c \in [current_extent : Extents \cup {UndefinedExtent},
             min_image_extent : Extents, max_image_extent : Extents] :
        /\ WithinExtents(c.min_image_extent, c.min_image_extent,
                         c.max_image_extent)
        /\ IF c.current_extent = UndefinedExtent
           THEN c.min_image_extent.width > 0 /\ c.min_image_extent.height > 0
           ELSE WithinExtents(c.current_extent, c.min_image_extent,
                              c.max_image_extent) }

\* vk::SurfaceFormatKHR values, and the format lists a surface may report
\* (never empty).
SurfaceFormat(f, cs) == [format |-> f, color_space |-> cs]

FormatLists ==
    { << SurfaceFormat("R8G8B8A8_UNORM", "SRGB_NONLINEAR"),
         SurfaceFormat("B8G8R8A8_SRGB", "SRGB_NONLINEAR") >>,
      << SurfaceFormat("B8G8R8A8_UNORM", "SRGB_NONLINEAR"),
         SurfaceFormat("R8G8B8A8_UNORM", "SRGB_NONLINEAR") >> }

\* SwapChainSupportDetail values query_swapchain_support may return for a
\* surface that supports the FIFO present mode.
SwapChainSupports ==
    { [capabilities |-> counts @@ extents, formats |-> formats,
       present_modes |-> << "FIFO" >>] :
        counts \in Capabilities, extents \in ExtentCapabilities,
        formats \in FormatLists }

\* The sequences over S of length 0 to n.
SeqsUpTo(S, n) == UNION {[1 .. k -> S] : k \in 0 .. n}

\* The surface formats and the present modes the lists are made of.
SurfaceFormats ==
    { SurfaceFormat("B8G8R8A8_SRGB", "SRGB_NONLINEAR"),
      SurfaceFormat("B8G8R8A8_SRGB", "EXTENDED_SRGB_LINEAR_EXT"),
      SurfaceFormat("B8G8R8A8_UNORM", "SRGB_NONLINEAR"),
      SurfaceFormat("R8G8B8A8_UNORM", "SRGB_NONLINEAR") }

PresentModes == {"FIFO", "MAILBOX", "IMMEDIATE"}

\* SwapChainSupportDetail values with any list of formats and any list of
\* present modes, the empty lists of an unsupported surface included, for a
\* surface of the extent of the window with 2 to 3 images.
SwapChainSupportLists ==
    { [capabilities |->
          [min_image_count |-> 2, max_image_count |-> MaxImages,
           current_extent |-> Extent2D(MaxExtent, 1),
           min_image_extent |-> Extent2D(MaxExtent, 1),
           max_image_extent |-> Extent2D(MaxExtent, 1)],
       formats |-> formats, present_modes |-> present_modes] :
        formats \in SeqsUpTo(SurfaceFormats, MaxListLen),
        present_modes \in SeqsUpTo(PresentModes, MaxListLen) }

\* window.size values: cgmath::Vector2<u32>.
Sizes == [x : 0 .. (MaxExtent + 1), y : 0 .. (MaxExtent + 1)]

\* Win32Window::new sets size once, to the size the window is created with;
\* nothing updates it.
WindowSize == [x |-> MaxExtent, y |-> 1]

\* The client areas the window takes: as created, resized, minimized.
ClientExtents == {Extent2D(MaxExtent, 1), Extent2D(1, 1), Extent2D(0, 0)}

\* What query_swapchain_support returns for the Win32 surface of a window
\* with client area e: current, minimum and maximum extent are all e, and
\* the format list of the surface stays what it is.
Win32Supports(e) ==
    { [capabilities |->
          counts @@ [current_extent |-> e, min_image_extent |-> e,
                     max_image_extent |-> e],
       formats |-> << SurfaceFormat("R8G8B8A8_UNORM", "SRGB_NONLINEAR"),
                      SurfaceFormat("B8G8R8A8_SRGB", "SRGB_NONLINEAR") >>,
       present_modes |-> << "FIFO", "MAILBOX", "IMMEDIATE" >>] :
        counts \in Capabilities }

\* Mutant: the first format of the list, whatever the list holds.
choose_swapchain_format_first(available_formats) == available_formats[1]

\* choose_swapchain_format: the B8G8R8A8_SRGB / SRGB_NONLINEAR entry of the
\* list, else the first entry (first().unwrap(), which panics on an empty
\* list: see ChooseFormatPanics).
choose_swapchain_format(available_formats) ==
    LET wanted == SurfaceFormat("B8G8R8A8_SRGB", "SRGB_NONLINEAR") IN
    IF \E i \in 1 .. Len(available_formats) : available_formats[i] = wanted
    THEN wanted
    ELSE available_formats[1]

\* choose_swapchain_format on a list without a first entry: the loop finds
\* nothing and first().unwrap() panics.
ChooseFormatPanics(available_formats) == Len(available_formats) = 0

\* choose_swapchain_present_mode: MAILBOX if the list has it, else FIFO,
\* whatever the list holds.
choose_swapchain_present_mode(available_present_modes) ==
    IF \E i \in 1 .. Len(available_present_modes) :
          available_present_modes[i] = "MAILBOX"
    THEN "MAILBOX"
    ELSE "FIFO"

\* is_physical_device_suitable: is_swapchain_supported, for a device that
\* meets the other requirements.
is_swapchain_supported(swapchain_support) ==
    /\ Len(swapchain_support.formats) # 0
    /\ Len(swapchain_support.present_modes) # 0

\* num::clamp
clamp(input, min, max) ==
    IF input < min THEN min ELSE IF input > max THEN max ELSE input

\* Mutant: the extent is always the clamped window size.
choose_swapchain_extent_from_size(capabilities, size) ==
    Extent2D(clamp(size.x, capabilities.min_image_extent.width,
                   capabilities.max_image_extent.width),
             clamp(size.y, capabilities.min_image_extent.height,
                   capabilities.max_image_extent.height))

\* choose_swapchain_extent: current_extent as it is unless its width is
\* u32::MAX, else the window size clamped to the minimum and maximum.
choose_swapchain_extent(capabilities, size) ==
    IF capabilities.current_extent.width # U32_MAX
    THEN capabilities.current_extent
    ELSE Extent2D(clamp(size.x, capabilities.min_image_extent.width,
                        capabilities.max_image_extent.width),
                  clamp(size.y, capabilities.min_image_extent.height,
                        capabilities.max_image_extent.height))

\* SwapChain::new: the vk::SwapchainCreateInfoKHR built from the support
\* details and the window size.
SwapchainCreateInfo(swapchain_support, size) ==
    [min_image_count |-> ImageCount(swapchain_support.capabilities),
     image_color_space |->
        choose_swapchain_format(swapchain_support.formats).color_space,
     image_format |-> choose_swapchain_format(swapchain_support.formats).format,
     image_extent |->
        choose_swapchain_extent(swapchain_support.capabilities, size),
     present_mode |->
        choose_swapchain_present_mode(swapchain_support.present_modes)]

\* create_swapchain with an image extent of 0 is invalid usage: the call
\* fails (and `.expect` panics) or the driver creates what it was asked for.
CreateSwapchainOutcomes(info) ==
    IF info.image_extent.width = 0 \/ info.image_extent.height = 0
    THEN {"created", "failed"}
    ELSE {"created"}

\* create_swapchain for the surface the support details were queried from:
\* a present mode the surface does not list is invalid usage as well.
CreateSwapchainResults(swapchain_support, info) ==
    CreateSwapchainOutcomes(info) \cup
        (IF \E i \in 1 .. Len(swapchain_support.present_modes) :
                swapchain_support.present_modes[i] = info.present_mode
         THEN {"created"}
         ELSE {"created", "failed"})

\* SwapChain::create_image_views: one view per image.
CreateImageViews(images) == images

\* Mutant: one framebuffer per frame slot instead of one per image view.
CreateFramebufferPerSlot(imageviews) == MAX_FRAMES_IN_FLIGHT

\* SwapChain::create_framebuffer: one framebuffer per image view.
CreateFramebuffer(imageviews) == imageviews

\* SwapChain::new followed by create_framebuffer, for generation g with n
\* images handed back by the driver.
SwapChainNew(g, n, info) ==
    [gen |-> g, images |-> n, imageviews |-> CreateImageViews(n),
     framebuffers |-> CreateFramebuffer(CreateImageViews(n)), alive |-> TRUE,
     format |-> info.image_format, extent |-> info.image_extent]

\* Mutant: one command buffer per frame slot instead of one per framebuffer.
AllocateBuffersPerSlot(framebuffers) == MAX_FRAMES_IN_FLIGHT

\* CommandPool::allocate_buffers: command_buffer_count = framebuffers.len().
AllocateBuffers(framebuffers) == framebuffers

\* Mutant: recreate_swapchain without the call of record().
RecordOmitted(bufs) == 0

\* Renderer::record: iterates over command_pool.buffers.
RecordCount(bufs) == bufs

\* ------------------------------------------------ the Vulkan binding (ash)

\* What the platform answers to acquire / present for a swapchain in state
\* c; any call may also fail with a device error.
PlatformResults(c) ==
    { IF c = "out_of_date" THEN "ERROR_OUT_OF_DATE_KHR"
      ELSE IF c = "suboptimal" THEN "SUBOPTIMAL_KHR"
      ELSE "SUCCESS",
      "ERROR_DEVICE_LOST" }

\* The binding's result of queue_present: VK_SUCCESS is Ok(false),
\* VK_SUBOPTIMAL_KHR is Ok(true), an error code is Err(code).
AshQueuePresent(vk_result) ==
    IF vk_result = "SUCCESS" THEN [ok |-> TRUE, suboptimal |-> FALSE, err |-> "none"]
    ELSE IF vk_result = "SUBOPTIMAL_KHR"
         THEN [ok |-> TRUE, suboptimal |-> TRUE, err |-> "none"]
         ELSE [ok |-> FALSE, suboptimal |-> FALSE, err |-> vk_result]

\* The binding's result of acquire_next_image: Ok((index, suboptimal)) or
\* Err(code).
AshAcquireNextImage(vk_result) ==
    IF vk_result = "SUCCESS" THEN [ok |-> TRUE, suboptimal |-> FALSE, err |-> "none"]
    ELSE IF vk_result = "SUBOPTIMAL_KHR"
         THEN [ok |-> TRUE, suboptimal |-> TRUE, err |-> "none"]
         ELSE [ok |-> FALSE, suboptimal |-> FALSE, err |-> vk_result]

\* No call of SwapChain::new is in progress; create_info is empty until the
\* create info has been built.
NoSwapChainNew ==
    [swapchain_support |-> "none", size |-> "none", create_info |-> << >>]

\* The swapchain field before SwapChain::new has returned.
NoSwapChain ==
    [gen |-> 0, images |-> 0, imageviews |-> 0, framebuffers |-> 0,
     alive |-> FALSE, format |-> "none", extent |-> Extent2D(0, 0)]

\* --------------------------------------------- target-dependent resources

\* vk::SampleCountFlags has the bits TYPE_1 = 1, TYPE_2 = 2, ..., TYPE_64 =
\* 64: a mask is a number below 2^SampleCountBits.
SampleCountBits == 7

\* SampleCountFlags::contains for a flag of one bit, 2^i.
ContainsBit(mask, i) == (mask \div (2 ^ i)) % 2 = 1

\* The bits set in both masks.
CommonBits(color, depth) ==
    {i \in 0 .. (SampleCountBits - 1) :
        ContainsBit(color, i) /\ ContainsBit(depth, i)}

\* The sample-count masks a device may report for framebuffer color and
\* depth attachments: TYPE_1 and TYPE_4 are always supported.
SampleCountMasks ==
    {m \in 0 .. (2 ^ SampleCountBits - 1) :
        ContainsBit(m, 0) /\ ContainsBit(m, 2)}

\* get_max_usable_sample_count: count is std::cmp::min of the two masks,
\* which compares them as numbers; the chain of ifs returns the highest of
\* TYPE_64 .. TYPE_2 that count contains, TYPE_1 otherwise.
get_max_usable_sample_count(color, depth) ==
    LET count == Min(color, depth)
        above == {i \in 1 .. (SampleCountBits - 1) : ContainsBit(count, i)}
    IN  IF above = {} THEN 1
        ELSE 2 ^ (CHOOSE i \in above : \A j \in above : j <= i)

\* The masks of the device of the other specifications: TYPE_1 to TYPE_8
\* for both, of which TYPE_8 is chosen.
DeviceSampleCounts ==
    [color |-> 15, depth |-> 15,
     chosen |-> << get_max_usable_sample_count(15, 15) >>]

\* Renderer.msaa_samples: get_max_usable_sample_count, fixed at startup.
msaa_samples == "TYPE_8"

\* DepthImage::find_depth_format: the first candidate the device supports.
find_depth_format == "D32_SFLOAT"

\* What an attachment image view gives a framebuffer: the format and sample
\* count of its image and the extent of the image.
ImageView(format, samples, extent) ==
    [format |-> format, samples |-> samples, extent |-> extent]

\* ColorImage::new(device, format, extent, msaa_samples)
ColorImageNew(format, extent, samples) == ImageView(format, samples, extent)

\* DepthImage::new(instance, device, swapchain_extent, msaa_samples)
DepthImageNew(swapchain_extent, samples) ==
    ImageView(find_depth_format, samples, swapchain_extent)

\* The view of a swapchain image: the surface format, one sample, the extent
\* of the swapchain.
SwapchainImageView(sc) == ImageView(sc.format, "TYPE_1", sc.extent)

\* RenderPass::new(instance, device, format, msaa_samples):
\* render_pass_attachments = [color_attachment, depth_attachment,
\* color_attachment_resolve].
RenderPassNew(format, samples) ==
    << [format |-> format, samples |-> samples],
       [format |-> find_depth_format, samples |-> samples],
       [format |-> format, samples |-> "TYPE_1"] >>

\* Mutant: the two attachment image views in the order of the parameters of
\* create_framebuffer.
FramebufferAttachmentsAsPassed(color_image_view, depth_image_view, image_view) ==
    << depth_image_view, color_image_view, image_view >>

\* create_framebuffer:
\*   let attachments = [color_image_view, depth_image_view, image_view];
FramebufferAttachments(color_image_view, depth_image_view, image_view) ==
    << color_image_view, depth_image_view, image_view >>

\* create_framebuffer(render_pass, depth_image_view, color_image_view): the
\* vk::FramebufferCreateInfo of every framebuffer of the swapchain (they
\* differ in the swapchain image view only).
FramebufferCreateInfo(sc, render_pass, depth_image_view, color_image_view) ==
    [render_pass |-> render_pass,
     attachments |-> FramebufferAttachments(color_image_view, depth_image_view,
                                            SwapchainImageView(sc)),
     extent |-> sc.extent]

\* GraphicPipeline::new: viewport and scissor are those of swapchain.extent.
GraphicPipelineNew(render_pass, sc, samples) ==
    [render_pass |-> render_pass, viewport |-> sc.extent,
     scissor |-> sc.extent, rasterization_samples |-> samples]

\* render_pass.begin(command_buffer, self.swapchain.extent, framebuffers[i])
RenderArea(sc) == sc.extent

\* The target-dependent resources Renderer::new and recreate_swapchain
\* create for the swapchain sc, each from the arguments the code passes.
TargetsNew(sc, render_area) ==
    LET render_pass == RenderPassNew(sc.format, msaa_samples)
        color_image == ColorImageNew(sc.format, sc.extent, msaa_samples)
        depth_image == DepthImageNew(sc.extent, msaa_samples)
    IN  [render_pass |-> render_pass,
         pipeline |-> GraphicPipelineNew(render_pass, sc, msaa_samples),
         color_image |-> color_image,
         depth_image |-> depth_image,
         framebuffer |-> FramebufferCreateInfo(sc, render_pass, depth_image,
                                               color_image),
         render_area |-> render_area]

\* ---------------------------------------------------------- Renderer::record

\* RenderPass::begin: clear_values, for the color buffer and the depth
\* buffer (float32: [0.0, 0.0, 0.0, 1.0]; depth: 1.0, stencil: 0).
ClearValues ==
    << [color |-> << 0, 0, 0, 1 >>], [depth |-> 1, stencil |-> 0] >>

\* The drawables record() draws, in its order: the mesh, the argument of
\* descriptor_pool.bind and the index into entities.get_transforms().
Drawables ==
    << [mesh |-> "mesh", set |-> 0, transform |-> 0],
       [mesh |-> "mesh2", set |-> 1, transform |-> 1] >>

\* The commands of one block of record(): mesh.bind, descriptor_pool.bind,
\* cmd_push_constants, mesh.draw(command_buffer, 1) (cmd_draw_indexed).
DrawableCommands(d) ==
    << [cmd |-> "bind_vertex_and_index_buffer", mesh |-> d.mesh],
       [cmd |-> "bind_descriptor_sets", set |-> d.set],
       [cmd |-> "push_constants", transform |-> d.transform],
       [cmd |-> "draw_indexed", mesh |-> d.mesh, instance_count |-> 1] >>

\* Mutant: every command buffer begins the render pass on framebuffers[0].
RecordCommandsFirstFramebuffer(i, sc) ==
    << [cmd |-> "begin_command_buffer"],
       [cmd |-> "begin_render_pass", framebuffer |-> 0, gen |-> sc.gen,
        extent |-> RenderArea(sc), clear_values |-> ClearValues],
       [cmd |-> "bind_pipeline", gen |-> sc.gen] >>
    \o DrawableCommands(Drawables[1]) \o DrawableCommands(Drawables[2])
    \o << [cmd |-> "end_render_pass"], [cmd |-> "end_command_buffer"] >>

\* One iteration of the loop of record(), for command buffer i: what it
\* records into the buffer. The render pass, the framebuffer and the
\* pipeline are the handles in the fields of the renderer, those of the
\* generation gen of the swapchain.
RecordCommands(i, sc) ==
    << [cmd |-> "begin_command_buffer"],
       [cmd |-> "begin_render_pass", framebuffer |-> i, gen |-> sc.gen,
        extent |-> RenderArea(sc), clear_values |-> ClearValues],
       [cmd |-> "bind_pipeline", gen |-> sc.gen] >>
    \o DrawableCommands(Drawables[1]) \o DrawableCommands(Drawables[2])
    \o << [cmd |-> "end_render_pass"], [cmd |-> "end_command_buffer"] >>

\* Mutant: the buffers recorded with the handles of the generation before.
RecordBuffersStale(bufs, sc) ==
    [i \in 0 .. (bufs - 1) |->
        RecordCommands(i, [sc EXCEPT !.gen = sc.gen - 1])]

\* record(): for (i, &command_buffer) in command_pool.buffers.iter()
\* .enumerate().
RecordBuffers(bufs, sc) == [i \in 0 .. (bufs - 1) |-> RecordCommands(i, sc)]

\* allocate_buffers, free_buffers: the buffers with nothing recorded.
EmptyBuffers(bufs) == [i \in 0 .. (bufs - 1) |-> << >>]

\* ------------------------------------------------------------ Renderer::draw

\* Mutant of the match on the acquire result: Ok with the suboptimal flag set
\* is taken as a rebuild trigger.
AcquireMatchSuboptimalRecreate(res) ==
    IF res.ok THEN (IF res.suboptimal THEN "recreate" ELSE "image")
    ELSE IF res.err = "ERROR_OUT_OF_DATE_KHR" THEN "recreate"
    ELSE "panic"

\* Mutant: every Err of acquire is taken as a stale swapchain.
AcquireMatchErrorsAsStale(res) ==
    IF res.ok THEN "image" ELSE "recreate"

\* draw's match on the acquire result: "image" (Ok), "recreate"
\* (ERROR_OUT_OF_DATE_KHR) or "panic".
AcquireMatch(res) ==
    IF res.ok THEN "image"
    ELSE IF res.err = "ERROR_OUT_OF_DATE_KHR" THEN "recreate"
    ELSE "panic"

\* Mutants of the match on the present result: an out-of-date present only
\* advances (the rebuild is left to a later tick); every Err arm falls back on
\* the resize flag.
PresentMatchDeferred(res, resized) ==
    IF res.ok THEN (IF resized THEN "recreate" ELSE "advance")
    ELSE IF res.err \in {"ERROR_OUT_OF_DATE_KHR", "SUBOPTIMAL_KHR"} THEN "advance"
    ELSE "panic"

PresentMatchFlagOnly(res, resized) ==
    IF res.ok \/ res.err \in {"ERROR_OUT_OF_DATE_KHR", "SUBOPTIMAL_KHR"}
    THEN (IF resized THEN "recreate" ELSE "advance")
    ELSE "panic"

\* Mutant: a present that returns Ok advances whatever the resize flag says.
PresentMatchIgnoresFlag(res, resized) ==
    IF res.ok THEN "advance"
    ELSE IF res.err \in {"ERROR_OUT_OF_DATE_KHR", "SUBOPTIMAL_KHR"} THEN "recreate"
    ELSE "panic"

\* draw's match on the present result: is_resized, or "panic".
\*   Ok(_) => self.is_framebuffer_resized,
\*   Err(ERROR_OUT_OF_DATE_KHR | SUBOPTIMAL_KHR) => true, _ => panic
PresentMatch(res, resized) ==
    IF res.ok THEN (IF resized THEN "recreate" ELSE "advance")
    ELSE IF res.err \in {"ERROR_OUT_OF_DATE_KHR", "SUBOPTIMAL_KHR"} THEN "recreate"
    ELSE "panic"

\* Mutant: the slot index is not advanced.
NextFrameStuck(f) == f

\* self.current_frame = (self.current_frame + 1) % MAX_FRAMES_IN_FLIGHT
NextFrame(f) == (f + 1) % MAX_FRAMES_IN_FLIGHT

\* Mutants of the fence wait: the wait left out, and a wait that returns as
\* soon as any fence of the ring is signaled.
FenceWaitSkipped(fences, slot) == TRUE

FenceWaitAny(fences, slot) == \E s \in Slots : fences[s]

\* wait_for_fences(&[in_flight_fences[current_frame]], true, u64::MAX)
\* returns once the fence of the slot is signaled.
FenceWaitDone(fences, slot) == fences[slot]

\* Mutant: recreate_swapchain and destroy without the idle wait.
DeviceIdleSkipped(queue) == TRUE

\* device_wait_idle returns once the GPU has completed every submission.
DeviceIdle(queue) == queue = << >>

\* The index draw uses for the synchronization objects, given the slot
\* index and the acquired image index:
\*   in_flight_fences[self.current_frame],
\*   image_available_semaphores[self.current_frame],
\*   render_finished_semaphores[self.current_frame]
PerSlot(frame, image) == frame

\* Mutant: the command buffer and the presented image selected by the slot
\* index.
PerImageBySlot(frame, image) == frame

\* The index draw uses for the command buffer and for the image to present:
\*   self.command_pool.get_buffer(image_index as usize),
\*   p_image_indices: &image_index
PerImage(frame, image) == image

\* The copy of the uniform data update_uniform_buffer writes and the
\* command buffers read: Renderer has the one self.uniform_buffer, bound to
\* descriptor set 0 of every command buffer, whatever the slot or the image.
UniformCopy(frame, image) == 0

\* SyncObjects::new creates the image-available semaphores of the slots
\* with empty flags: unsignaled, nothing waits on them.
SemaphoresNew == [s \in Slots |-> "unsignaled"]

\* Mutant: an acquire that signals the semaphore whatever it returns.
AcquireSignalAlways(semaphore, res) == "signaled"

\* acquire_next_image with the semaphore: an acquire that returns an image
\* signals it, one that returns an error leaves it alone. Handing in a
\* semaphore that is signaled or waited on is invalid usage.
AcquireSignal(semaphore, res) ==
    IF ~res.ok THEN semaphore
    ELSE IF semaphore = "unsignaled" THEN "signaled"
    ELSE "invalid"

\* queue_submit with the semaphore in p_wait_semaphores: the submission
\* waits on it, which resets it when the submission has run.
SubmitWait(semaphore) == IF semaphore = "signaled" THEN "waited" ELSE "invalid"

\* The submission that waited on the semaphore has run.
WaitExecuted(semaphore) == IF semaphore = "waited" THEN "unsignaled" ELSE semaphore

\* The presentation engine of the platform. A present queued by
\* queue_present waits on the semaphore it was given before the image is
\* shown. An in-order engine executes the wait as soon as the submission has
\* signaled the semaphore; a deferred one executes it at a later time of its
\* own choosing, the presents in the order they were queued.
PresentationEngine(deferred) == [deferred |-> deferred, waits |-> << >>]

\* queue_present with p_wait_semaphores = [semaphore], p_image_indices =
\* image on the swapchain gen: a deferred engine keeps the wait.
PresentQueued(pe, semaphore, image, gen) ==
    IF pe.deferred
    THEN [pe EXCEPT !.waits = Append(@, [semaphore |-> semaphore,
                                         image |-> image, gen |-> gen])]
    ELSE pe

\* The semaphores a queued present still waits on.
WaitedSemaphores(pe) == { pe.waits[i].semaphore : i \in 1 .. Len(pe.waits) }

\* acquire_next_image returns only an image the presentation engine has
\* released: no present of that image is still queued.
ImageReleased(pe, image, gen) ==
    \A i \in 1 .. Len(pe.waits) :
       ~(pe.waits[i].image = image /\ pe.waits[i].gen = gen)

\* device_wait_idle, taken to cover the present queue as well: it returns
\* once every queued present has executed its semaphore wait.
PresentQueueIdle(pe) == pe.waits = << >>

\* The submission that signals the semaphore of the queued present w has
\* completed.
Signaled(w, queue) ==
    \A i \in 1 .. Len(queue) :
       ~(queue[i].slot = w.semaphore /\ queue[i].image = w.image
           /\ queue[i].gen = w.gen)

\* draw's arguments before a tick has made any call.
NoArgs ==
    [wait_fence |-> NoImage, acquire_semaphore |-> NoImage,
     reset_fence |-> NoImage, wait_semaphore |-> NoImage,
     signal_semaphore |-> NoImage, submit_fence |-> NoImage,
     command_buffer |-> NoImage, present_semaphore |-> NoImage,
     present_image |-> NoImage, uniform_copy |-> NoImage]

\* What wait_for_fences can return with the timeout u64::MAX: VK_SUCCESS
\* once the fence is signaled, or an error code at any time.
FenceWaitResults(signaled) ==
    (IF signaled THEN {"SUCCESS"} ELSE {}) \cup {"ERROR_DEVICE_LOST"}

\* .expect("Failed to wait for Fence!") on the result of wait_for_fences.
FenceWaitMatch(vk_result) == IF vk_result = "SUCCESS" THEN "go" ELSE "panic"

\* Mutant: draw with the fence reset right after the fence wait, before the
\* acquire.
DrawOrderResetBeforeAcquire ==
    << "fence_wait", "reset", "acquire", "update", "submit", "present" >>

\* The steps of draw up to present, in the order of the code: wait_for_fences,
\* acquire_next_image, update_uniform_buffer, reset_fences, queue_submit,
\* queue_present.
DrawOrder ==
    << "fence_wait", "acquire", "update", "reset", "submit", "present" >>

\* The step of draw that follows the step p when p falls through.
StepAfter(p) == DrawOrder[FirstIndexOf(DrawOrder, p) + 1]

\* Entry of draw: the CPU starts to wait on the fence of the current slot.
DrawBegin ==
    /\ pc = "idle"
    /\ pc' = DrawOrder[1]
    /\ calls' = << >>
    /\ args' = NoArgs
    /\ image_index' = NoImage
    /\ acquired' = "none"
    /\ waited' = "none"
    /\ result' = "none"
    /\ UNCHANGED << from, current_frame, is_framebuffer_resized, image_gen,
                    present_reported, acquire_reported, in_flight_fences,
                    pending, swapchain, buffers, recorded, chain, events,
                    targets, swapchain_new, live, surface_extent,
                    sync_objects, command_buffers, per_image, handles,
                    presentation_engine, image_available_semaphores,
                    sample_counts >>

WaitForFences ==
    /\ pc = "fence_wait"
    /\ \E r \in FenceWaitResults(
                  FenceWaitDone(in_flight_fences,
                                PerSlot(current_frame, image_index))) :
         /\ waited' = r
         /\ pc' = IF FenceWaitMatch(r) = "go" THEN StepAfter("fence_wait")
                  ELSE "panic"
    /\ args' = [args EXCEPT !.wait_fence = PerSlot(current_frame, image_index)]
    /\ calls' = Append(calls, "wait_for_fences")
    /\ UNCHANGED << from, current_frame, is_framebuffer_resized, image_index,
                    image_gen, acquired, result, present_reported,
                    acquire_reported, in_flight_fences, pending, swapchain,
                    buffers, recorded, chain, events, targets, swapchain_new,
                    live, surface_extent, sync_objects, command_buffers,
                    per_image, handles, presentation_engine,
                    image_available_semaphores, sample_counts >>

AcquireNextImage ==
    /\ pc = "acquire"
    /\ \E r \in PlatformResults(chain) :
         LET m == AcquireMatch(AshAcquireNextImage(r)) IN
         /\ acquired' = r
         /\ acquire_reported' =
                IF r = "SUBOPTIMAL_KHR" /\ acquire_reported.result = "none"
                THEN [result |-> r, ticks |-> 0]
                ELSE acquire_reported
         /\ calls' = Append(calls, "acquire_next_image")
         /\ image_available_semaphores' =
                [image_available_semaphores EXCEPT
                    ![PerSlot(current_frame, image_index)] =
                        AcquireSignal(@, AshAcquireNextImage(r))]
         /\ args' = [args EXCEPT !.acquire_semaphore =
                                     PerSlot(current_frame, image_index)]
         /\ \/ /\ m = "image"
               /\ \E i \in 0 .. (swapchain.images - 1) :
                    /\ ImageReleased(presentation_engine, i, swapchain.gen)
                    /\ image_index' = i
                    /\ image_gen' = swapchain.gen
               /\ pc' = StepAfter("acquire")
               /\ from' = from
            \/ /\ m = "recreate"
               /\ pc' = "recreate_wait"
               /\ from' = "acquire"
               /\ UNCHANGED << image_index, image_gen >>
            \/ /\ m = "panic"
               /\ pc' = "panic"
               /\ UNCHANGED << from, image_index, image_gen >>
    /\ UNCHANGED << current_frame, is_framebuffer_resized, result,
                    present_reported, in_flight_fences, pending, swapchain,
                    buffers, recorded, chain, events, targets, swapchain_new,
                    live, surface_extent, sync_objects, command_buffers,
                    per_image, handles, presentation_engine, waited,
                    sample_counts >>

\* update_uniform_buffer maps the uniform buffer and writes the view and
\* projection matrices of this tick into it.
UpdateUniformBuffer ==
    /\ pc = "update"
    /\ pc' = StepAfter("update")
    /\ args' = [args EXCEPT !.uniform_copy =
                                UniformCopy(current_frame, image_index)]
    /\ calls' = Append(calls, "update_uniform_buffer")
    /\ UNCHANGED << from, current_frame, is_framebuffer_resized, image_index,
                    image_gen, acquired, result, present_reported,
                    acquire_reported, in_flight_fences, pending, swapchain,
                    buffers, recorded, chain, events, targets, swapchain_new,
                    live, surface_extent, sync_objects, command_buffers,
                    per_image, handles, presentation_engine,
                    image_available_semaphores, waited, sample_counts >>

ResetFences ==
    /\ pc = "reset"
    /\ pc' = StepAfter("reset")
    /\ in_flight_fences' =
          [in_flight_fences EXCEPT ![PerSlot(current_frame, image_index)] = FALSE]
    /\ args' = [args EXCEPT !.reset_fence = PerSlot(current_frame, image_index)]
    /\ calls' = Append(calls, "reset_fences")
    /\ UNCHANGED << from, current_frame, is_framebuffer_resized, image_index,
                    image_gen, acquired, result, present_reported,
                    acquire_reported, pending, swapchain, buffers, recorded,
                    chain, events, targets, swapchain_new, live,
                    surface_extent, sync_objects, command_buffers, per_image,
                    handles, presentation_engine, image_available_semaphores,
                    waited, sample_counts >>

\* get_buffer(image_index) indexes command_pool.buffers (a bounds-checked
\* Vec); the submission signals the fence of the current slot.
QueueSubmit ==
    /\ pc = "submit"
    /\ LET sync == PerSlot(current_frame, image_index)
           cb == PerImage(current_frame, image_index) IN
       IF cb \in 0 .. (buffers - 1)
       THEN /\ image_available_semaphores' =
                   [image_available_semaphores EXCEPT ![sync] = SubmitWait(@)]
            /\ pending' = Append(pending,
                    [slot |-> sync, image |-> cb, gen |-> swapchain.gen,
                     uniform_copy |-> UniformCopy(sync, cb)])
            /\ args' = [args EXCEPT !.wait_semaphore = sync,
                                     !.signal_semaphore = sync,
                                     !.submit_fence = sync,
                                     !.command_buffer = cb]
            /\ calls' = Append(calls, "queue_submit")
            /\ pc' = StepAfter("submit")
       ELSE /\ pc' = "panic"
            /\ UNCHANGED << pending, args, calls, image_available_semaphores >>
    /\ UNCHANGED << from, current_frame, is_framebuffer_resized, image_index,
                    image_gen, acquired, result, present_reported,
                    acquire_reported, in_flight_fences, swapchain, buffers,
                    recorded, chain, events, targets, swapchain_new, live,
                    surface_extent, sync_objects, command_buffers, per_image,
                    handles, presentation_engine, waited, sample_counts >>

QueuePresent ==
    /\ pc = "present"
    /\ \E r \in PlatformResults(chain) :
         LET m == PresentMatch(AshQueuePresent(r), is_framebuffer_resized) IN
         /\ result' = r
         /\ present_reported' = IF r \in {"SUBOPTIMAL_KHR", "ERROR_OUT_OF_DATE_KHR"}
                                THEN r ELSE present_reported
         /\ calls' = Append(calls, "queue_present")
         /\ presentation_engine' =
                PresentQueued(presentation_engine,
                              PerSlot(current_frame, image_index),
                              PerImage(current_frame, image_index),
                              swapchain.gen)
         /\ args' = [args EXCEPT
                       !.present_semaphore = PerSlot(current_frame, image_index),
                       !.present_image = PerImage(current_frame, image_index)]
         /\ \/ /\ m = "recreate"
               /\ is_framebuffer_resized' = FALSE
               /\ pc' = "recreate_wait"
               /\ from' = "present"
            \/ /\ m = "advance"
               /\ pc' = "advance"
               /\ UNCHANGED << from, is_framebuffer_resized >>
            \/ /\ m = "panic"
               /\ pc' = "panic"
               /\ UNCHANGED << from, is_framebuffer_resized >>
    /\ UNCHANGED << current_frame, image_index, image_gen, acquired,
                    acquire_reported, in_flight_fences, pending, swapchain,
                    buffers, recorded, chain, events, targets, swapchain_new,
                    live, surface_extent, sync_objects, command_buffers,
                    per_image, handles, image_available_semaphores, waited,
                    sample_counts >>

Advance ==
    /\ pc = "advance"
    /\ current_frame' = NextFrame(current_frame)
    /\ pc' = "idle"
    /\ acquire_reported' =
           IF acquire_reported.result = "none" THEN acquire_reported
           ELSE [acquire_reported EXCEPT !.ticks = Min(@ + 1, 2)]
    /\ UNCHANGED << from, is_framebuffer_resized, image_index, image_gen,
                    acquired, result, present_reported, in_flight_fences,
                    pending, swapchain, buffers, recorded, chain, events,
                    calls, args, targets, swapchain_new, live, surface_extent,
                    sync_objects, command_buffers, per_image, handles,
                    presentation_engine, image_available_semaphores, waited,
                    sample_counts >>

\* ------------------------------------------- Renderer::recreate_swapchain

\* Mutant: the teardown in the reverse order of the construction, the
\* attachment images after the render pass.
CleanupCallsReverseOfConstruction ==
    << "free_command_buffers", "destroy_framebuffers", "destroy_pipeline",
       "destroy_render_pass", "destroy_depth_image", "destroy_color_image",
       "destroy_image_views", "destroy_swapchain" >>

\* Mutant: cleanup_swapchain without the destruction of the swapchain.
CleanupCallsLeakSwapchain ==
    << "destroy_depth_image", "destroy_color_image", "free_command_buffers",
       "destroy_framebuffers", "destroy_pipeline", "destroy_render_pass",
       "destroy_image_views" >>

\* Mutant: cleanup_swapchain with a swapchain destroy that leaves the image
\* views.
CleanupCallsLeakImageViews ==
    << "destroy_depth_image", "destroy_color_image", "free_command_buffers",
       "destroy_framebuffers", "destroy_pipeline", "destroy_render_pass",
       "destroy_swapchain" >>

\* Mutant: cleanup_swapchain destroying the framebuffers a second time.
CleanupCallsDoubleDestroy ==
    << "destroy_depth_image", "destroy_color_image", "free_command_buffers",
       "destroy_framebuffers", "destroy_pipeline", "destroy_render_pass",
       "destroy_framebuffers", "destroy_image_views", "destroy_swapchain" >>

\* The destroy calls of Renderer::cleanup_swapchain, in the order of the code.
CleanupCalls ==
    << "destroy_depth_image", "destroy_color_image", "free_command_buffers",
       "destroy_framebuffers", "destroy_pipeline", "destroy_render_pass",
       "destroy_image_views", "destroy_swapchain" >>

\* The creation calls of the target-dependent resources in Renderer::new, in
\* the order of the code; new does not record the command buffers.
NewCalls ==
    << "create_swapchain", "create_image_views", "create_color_image",
       "create_depth_image", "create_render_pass", "create_framebuffers",
       "create_pipeline", "allocate_command_buffers" >>

\* Mutant: recreate_swapchain in the order of Renderer::new, followed by the
\* recording.
RecreateCallsAsNew ==
    << "create_swapchain", "create_image_views", "create_color_image",
       "create_depth_image", "create_render_pass", "create_framebuffers",
       "create_pipeline", "allocate_command_buffers", "record" >>

\* Mutant: recreate_swapchain creating the pipeline before the render pass.
RecreateCallsPipelineFirst ==
    << "create_swapchain", "create_image_views", "create_pipeline",
       "create_render_pass", "create_color_image", "create_depth_image",
       "create_framebuffers", "allocate_command_buffers", "record" >>

\* The creation calls of Renderer::recreate_swapchain after the cleanup, in
\* the order of the code.
RecreateCalls ==
    << "create_swapchain", "create_image_views", "create_render_pass",
       "create_pipeline", "create_color_image", "create_depth_image",
       "create_framebuffers", "allocate_command_buffers", "record" >>

\* The kinds of target-dependent objects, by the call that creates and the
\* call that destroys an object of the kind.
Creates ==
    [create_swapchain |-> "swapchain", create_image_views |-> "image_views",
     create_color_image |-> "color_image",
     create_depth_image |-> "depth_image",
     create_render_pass |-> "render_pass",
     create_framebuffers |-> "framebuffers",
     create_pipeline |-> "pipeline",
     allocate_command_buffers |-> "command_buffers"]

Destroys ==
    [destroy_swapchain |-> "swapchain", destroy_image_views |-> "image_views",
     destroy_color_image |-> "color_image",
     destroy_depth_image |-> "depth_image",
     destroy_render_pass |-> "render_pass",
     destroy_framebuffers |-> "framebuffers",
     destroy_pipeline |-> "pipeline",
     free_command_buffers |-> "command_buffers"]

Kinds == {Creates[c] : c \in DOMAIN Creates}

NoneLive == [k \in Kinds |-> 0]

\* The live objects after one call: a creation adds an object of its kind, a
\* destruction takes one away, any other call leaves them.
LiveAfterCall(l, call) ==
    IF call \in DOMAIN Creates
    THEN [l EXCEPT ![Creates[call]] = @ + 1]
    ELSE IF call \in DOMAIN Destroys
         THEN [l EXCEPT ![Destroys[call]] = @ - 1]
         ELSE l

\* The live objects after the calls cs, in order.
RECURSIVE LiveAfter(_, _)
LiveAfter(l, cs) ==
    IF cs = << >> THEN l ELSE LiveAfter(LiveAfterCall(l, Head(cs)), Tail(cs))

\* The kinds of objects a creation call is handed, by the arguments of the
\* call in Renderer::new and in recreate_swapchain: the image views are made
\* inside SwapChain::new; the attachment images and the render pass get the
\* format and extent of the swapchain; the pipeline the render pass and the
\* swapchain; create_framebuffer the render pass and both attachment views
\* and reads the image views of the swapchain; allocate_buffers the
\* framebuffers; record reads swapchain, render pass, framebuffers, pipeline
\* and the command buffers.
References ==
    [create_image_views |-> {"swapchain"},
     create_color_image |-> {"swapchain"},
     create_depth_image |-> {"swapchain"},
     create_render_pass |-> {"swapchain"},
     create_pipeline |-> {"render_pass", "swapchain"},
     create_framebuffers |-> {"render_pass", "image_views", "color_image",
                              "depth_image", "swapchain"},
     allocate_command_buffers |-> {"framebuffers"},
     record |-> {"swapchain", "framebuffers", "render_pass", "pipeline",
                 "command_buffers"}]

\* Every call of the log cs that is handed objects is handed live ones that
\* calls earlier in cs have created; l counts the live objects before cs,
\* made is the set of kinds created so far.
RECURSIVE ReferencesCurrent(_, _, _)
ReferencesCurrent(cs, l, made) ==
    IF cs = << >> THEN TRUE
    ELSE LET c == Head(cs) IN
         /\ c \in DOMAIN References =>
               \A k \in References[c] : l[k] = 1 /\ k \in made
         /\ ReferencesCurrent(Tail(cs), LiveAfterCall(l, c),
                              IF c \in DOMAIN Creates
                              THEN made \cup {Creates[c]} ELSE made)

\* How many calls of the log cs create (destroy) an object of kind k.
CreatedBy(cs, k) ==
    Cardinality({i \in 1 .. Len(cs) :
                    cs[i] \in DOMAIN Creates /\ Creates[cs[i]] = k})

DestroyedBy(cs, k) ==
    Cardinality({i \in 1 .. Len(cs) :
                    cs[i] \in DOMAIN Destroys /\ Destroys[cs[i]] = k})

\* The handles after the destroy calls cs: each call destroys the handle
\* its field holds, which is the one created last.
HandlesDestroyed(h, cs) ==
    [k \in Kinds |-> [h[k] EXCEPT ![Len(h[k])] = @ + DestroyedBy(cs, k)]]

\* The handles after the create calls cs: each call puts a new handle, not
\* destroyed so far, into its field.
HandlesCreated(h, cs) ==
    [k \in Kinds |-> IF CreatedBy(cs, k) > 0 THEN Append(h[k], 0) ELSE h[k]]

\* recreate_swapchain begins with self.device.wait_idle().
RecreateWaitIdle ==
    /\ pc = "recreate_wait"
    /\ DeviceIdle(pending)
    /\ PresentQueueIdle(presentation_engine)
    /\ pc' = "cleanup"
    /\ calls' = Append(calls, "device_wait_idle")
    /\ UNCHANGED << from, current_frame, is_framebuffer_resized, image_index,
                    image_gen, acquired, result, present_reported,
                    acquire_reported, in_flight_fences, pending, swapchain,
                    buffers, recorded, chain, events, args, targets,
                    swapchain_new, live, surface_extent, sync_objects,
                    command_buffers, per_image, handles, presentation_engine,
                    image_available_semaphores, waited, sample_counts >>

\* cleanup_swapchain, called by recreate_swapchain and by destroy: the
\* handles stay in the fields, the objects behind them are gone.
CleanupSwapchain ==
    /\ pc = "cleanup"
    /\ swapchain' = [swapchain EXCEPT !.alive = FALSE]
    /\ recorded' = 0
    /\ command_buffers' = EmptyBuffers(buffers)
    /\ calls' = calls \o CleanupCalls
    /\ live' = LiveAfter(live, CleanupCalls)
    /\ handles' = HandlesDestroyed(handles, CleanupCalls)
    /\ pc' = IF from = "shutdown" THEN "destroy_rest" ELSE "construct"
    /\ UNCHANGED << from, current_frame, is_framebuffer_resized, image_index,
                    image_gen, acquired, result, present_reported,
                    acquire_reported, in_flight_fences, pending, buffers,
                    chain, events, args, targets, swapchain_new,
                    surface_extent, sync_objects, per_image,
                    presentation_engine, image_available_semaphores, waited,
                    sample_counts >>

\* The rest of recreate_swapchain: a new swapchain for the surface as it is
\* now, the resources that depend on it, the command buffers and record().
\* Control returns to draw: out of it after a stale acquire, to the slot
\* advance after present.
RecreateSwapchain ==
    /\ pc = "construct"
    /\ \E e \in ClientExtents : \E swapchain_support \in Win32Supports(e) :
         LET info == SwapchainCreateInfo(swapchain_support, WindowSize) IN
         /\ surface_extent' = e
         /\ sync_objects' = SyncObjectsAfterRecreate(sync_objects)
         /\ \E outcome \in CreateSwapchainResults(swapchain_support, info) :
           IF outcome = "created"
           THEN /\ \E n \in SwapchainImages(swapchain_support.capabilities) :
                     LET sc == SwapChainNew(swapchain.gen + 1, n, info) IN
                     /\ swapchain' = sc
                     /\ targets' = TargetsNew(sc, RenderArea(sc))
                     /\ buffers' = AllocateBuffers(sc.framebuffers)
                     /\ recorded' = RecordCount(AllocateBuffers(sc.framebuffers))
                     /\ command_buffers' =
                            RecordBuffers(AllocateBuffers(sc.framebuffers), sc)
                /\ chain' = "ok"
                /\ present_reported' = "none"
                /\ acquire_reported' = [result |-> "none", ticks |-> 0]
                /\ calls' = calls \o RecreateCalls
                /\ live' = LiveAfter(live, RecreateCalls)
                /\ handles' = HandlesCreated(handles, RecreateCalls)
                /\ pc' = IF from = "acquire" THEN "idle" ELSE "advance"
                /\ from' = "none"
           ELSE /\ calls' = Append(calls, RecreateCalls[1])
                /\ pc' = "panic"
                /\ UNCHANGED << live, handles, swapchain, targets, buffers,
                                recorded,
                                command_buffers,
                                chain, present_reported, acquire_reported,
                                from >>
    /\ UNCHANGED << current_frame, is_framebuffer_resized, image_index,
                    image_gen, acquired, result, in_flight_fences, pending,
                    events, args, swapchain_new, per_image,
                    presentation_engine, image_available_semaphores, waited,
                    sample_counts >>

\* Renderer::record, called by the owner of the renderer between ticks.
Record ==
    /\ pc = "idle"
    /\ recorded # RecordCount(buffers)
    /\ recorded' = RecordCount(buffers)
    /\ command_buffers' = RecordBuffers(buffers, swapchain)
    /\ targets' = [targets EXCEPT !.render_area = RenderArea(swapchain)]
    /\ UNCHANGED << pc, from, current_frame, is_framebuffer_resized,
                    image_index, image_gen, acquired, result,
                    present_reported, acquire_reported, in_flight_fences,
                    pending, swapchain, buffers, chain, events, calls, args,
                    swapchain_new, live, surface_extent, sync_objects,
                    per_image, handles, presentation_engine,
                    image_available_semaphores, waited, sample_counts >>

\* Renderer::resize_framebuffer, called on a resize notification.
ResizeFramebuffer ==
    /\ pc = "idle"
    /\ events < MaxEvents
    /\ events' = events + 1
    /\ is_framebuffer_resized' = TRUE
    /\ UNCHANGED << pc, from, current_frame, image_index, image_gen, acquired,
                    result, present_reported, acquire_reported,
                    in_flight_fences, pending, swapchain, buffers, recorded,
                    chain, calls, args, targets, swapchain_new, live,
                    surface_extent, sync_objects, command_buffers, per_image,
                    handles, presentation_engine, image_available_semaphores,
                    waited, sample_counts >>

\* ------------------------------------------------------- Renderer::destroy

\* Mutant: the logical device destroyed before the command pool.
DestroyRestCallsDeviceFirst ==
    << "destroy_descriptor_pool", "destroy_uniform_buffer", "destroy_mesh",
       "destroy_texture", "destroy_mesh2", "destroy_texture2",
       "destroy_set_layouts", "destroy_device", "destroy_command_pool",
       "destroy_debug_objects", "destroy_surface", "destroy_instance" >>

\* The destroy calls of Drop for App after cleanup_swapchain.
AppDropRestCalls ==
    << "destroy_descriptor_pool", "destroy_uniform_buffer",
       "destroy_index_buffer", "destroy_vertex_buffer", "destroy_texture",
       "destroy_set_layouts", "destroy_command_pool", "destroy_device",
       "destroy_surface", "destroy_debug_objects", "destroy_instance" >>

\* The destroy calls of Renderer::destroy after cleanup_swapchain.
DestroyRestCalls ==
    << "destroy_descriptor_pool", "destroy_uniform_buffer", "destroy_mesh",
       "destroy_texture", "destroy_mesh2", "destroy_texture2",
       "destroy_set_layouts", "destroy_command_pool", "destroy_debug_objects",
       "destroy_device", "destroy_surface", "destroy_instance" >>

DestroyBegin ==
    /\ pc = "idle"
    /\ pc' = "destroy_wait"
    /\ args' = NoArgs
    /\ calls' = << >>
    /\ image_index' = NoImage
    /\ acquired' = "none"
    /\ waited' = "none"
    /\ result' = "none"
    /\ UNCHANGED << from, current_frame, is_framebuffer_resized, image_gen,
                    present_reported, acquire_reported, in_flight_fences,
                    pending, swapchain, buffers, recorded, chain, events,
                    targets, swapchain_new, live, surface_extent,
                    sync_objects, command_buffers, per_image, handles,
                    presentation_engine, image_available_semaphores,
                    sample_counts >>

\* self.device.wait_idle(); self.sync_objects.destroy();
DestroyWaitIdle ==
    /\ pc = "destroy_wait"
    /\ DeviceIdle(pending)
    /\ PresentQueueIdle(presentation_engine)
    /\ pc' = "cleanup"
    /\ from' = "shutdown"
    /\ calls' = calls \o << "device_wait_idle", "destroy_sync_objects" >>
    /\ sync_objects' = SyncObjectsDestroy(sync_objects)
    /\ UNCHANGED << current_frame, is_framebuffer_resized, image_index,
                    image_gen, acquired, result, present_reported,
                    acquire_reported, in_flight_fences, pending, swapchain,
                    buffers, recorded, chain, events, args, targets,
                    swapchain_new, live, surface_extent, command_buffers,
                    per_image, handles, presentation_engine,
                    image_available_semaphores, waited, sample_counts >>

DestroyRest ==
    /\ pc = "destroy_rest"
    /\ pc' = "destroyed"
    /\ calls' = calls \o (IF per_image = 0 THEN DestroyRestCalls
                          ELSE AppDropRestCalls)
    /\ UNCHANGED << from, current_frame, is_framebuffer_resized, image_index,
                    image_gen, acquired, result, present_reported,
                    acquire_reported, in_flight_fences, pending, swapchain,
                    buffers, recorded, chain, events, args, targets,
                    swapchain_new, live, surface_extent, sync_objects,
                    command_buffers, per_image, handles, presentation_engine,
                    image_available_semaphores, waited, sample_counts >>

\* ------------------------------------------------------- GPU and surface

\* The GPU completes one submission and signals the fence given to it.
GpuComplete ==
    /\ \E i \in 1 .. Len(pending) :
         /\ in_flight_fences' = [in_flight_fences EXCEPT ![pending[i].slot] = TRUE]
         /\ pending' = RemoveAt(pending, i)
         /\ image_available_semaphores' =
                [image_available_semaphores EXCEPT
                    ![pending[i].slot] = WaitExecuted(@)]
    /\ UNCHANGED << pc, from, current_frame, is_framebuffer_resized,
                    image_index, image_gen, acquired, result,
                    present_reported, acquire_reported, swapchain, buffers,
                    recorded, chain, events, calls, args, targets,
                    swapchain_new, live, surface_extent, sync_objects,
                    command_buffers, per_image, handles, presentation_engine,
                    waited, sample_counts >>

\* A deferred presentation engine executes the semaphore wait of the oldest
\* queued present, once the submission has signaled the semaphore.
PresentWait ==
    /\ presentation_engine.waits # << >>
    /\ Signaled(Head(presentation_engine.waits), pending)
    /\ presentation_engine' = [presentation_engine EXCEPT !.waits = Tail(@)]
    /\ UNCHANGED << pc, from, current_frame, is_framebuffer_resized,
                    image_index, image_gen, acquired, result,
                    present_reported, acquire_reported, in_flight_fences,
                    pending, swapchain, buffers, recorded, chain, events,
                    calls, args, targets, swapchain_new, live,
                    surface_extent, sync_objects, command_buffers, per_image,
                    handles, image_available_semaphores, waited,
                    sample_counts >>

\* The surface changes under a live swapchain: the swapchain becomes
\* suboptimal or out of date, or a suboptimal one matches the surface again;
\* an out-of-date swapchain stays so until it is re-created.
SurfaceChange ==
    /\ pc \notin {"panic", "destroy_wait", "destroy_rest", "destroyed"}
    /\ swapchain.alive
    /\ events < MaxEvents
    /\ events' = events + 1
    /\ \/ /\ chain = "ok"
          /\ chain' = "suboptimal"
       \/ /\ chain \in {"ok", "suboptimal"}
          /\ chain' = "out_of_date"
       \/ /\ chain = "suboptimal"
          /\ chain' = "ok"
    /\ UNCHANGED << pc, from, current_frame, is_framebuffer_resized,
                    image_index, image_gen, acquired, result,
                    present_reported, acquire_reported, in_flight_fences,
                    pending, swapchain, buffers, recorded, calls, args,
                    targets, swapchain_new, live, surface_extent,
                    sync_objects, command_buffers, per_image, handles,
                    presentation_engine, image_available_semaphores, waited,
                    sample_counts >>

\* ------------------------------------------------------------ specification

\* What Renderer::new and App::new have in common: swapchain, attachments,
\* render pass, framebuffers and command buffers exist, nothing is recorded
\* or submitted, slot 0 is next.
InitTargets ==
    /\ pc = "idle"
    /\ sample_counts = DeviceSampleCounts
    /\ image_available_semaphores = SemaphoresNew
    /\ from = "none"
    /\ current_frame = 0
    /\ is_framebuffer_resized = FALSE
    /\ image_index = NoImage
    /\ image_gen = 0
    /\ acquired = "none"
    /\ waited = "none"
    /\ result = "none"
    /\ present_reported = "none"
    /\ acquire_reported = [result |-> "none", ticks |-> 0]
    /\ in_flight_fences = SyncObjectsNew
    /\ sync_objects = SyncObjectsHandles
    /\ pending = << >>
    /\ \E swapchain_support \in Win32Supports(Extent2D(MaxExtent, 1)) :
       \E n \in SwapchainImages(swapchain_support.capabilities) :
         LET sc == SwapChainNew(0, n,
                      SwapchainCreateInfo(swapchain_support, WindowSize)) IN
         /\ swapchain = sc
         /\ targets = TargetsNew(sc, "none")
         /\ buffers = AllocateBuffers(sc.framebuffers)
         /\ command_buffers = EmptyBuffers(AllocateBuffers(sc.framebuffers))
    /\ recorded = 0
    /\ chain = "ok"
    /\ events = 0
    /\ swapchain_new = NoSwapChainNew
    /\ live = LiveAfter(NoneLive, NewCalls)
    /\ handles = HandlesCreated([k \in Kinds |-> << >>], NewCalls)
    /\ surface_extent = Extent2D(MaxExtent, 1)
    /\ args = NoArgs
    /\ calls = NewCalls

\* Renderer::new: one uniform buffer, nothing per swapchain image.
Init ==
    /\ InitTargets
    /\ per_image = 0
    /\ presentation_engine = PresentationEngine(FALSE)

\* App::new: UniformBuffer::new and create_descriptor_sets make one uniform
\* buffer and one descriptor set per image of the swapchain of the startup.
InitApp ==
    /\ InitTargets
    /\ per_image = swapchain.images
    /\ presentation_engine = PresentationEngine(FALSE)

\* ----------------------------------------------------------- SwapChain::new

\* The renderer's fields before SwapChain::new has been called for the
\* first time: nothing is built, nothing has been submitted.
NothingBuilt ==
    /\ swapchain = NoSwapChain
    /\ targets = "none"
    /\ buffers = 0
    /\ per_image = 0
    /\ command_buffers = EmptyBuffers(0)
    /\ recorded = 0
    /\ from = "none"
    /\ current_frame = 0
    /\ is_framebuffer_resized = FALSE
    /\ image_index = NoImage
    /\ image_gen = 0
    /\ acquired = "none"
    /\ waited = "none"
    /\ result = "none"
    /\ present_reported = "none"
    /\ acquire_reported = [result |-> "none", ticks |-> 0]
    /\ in_flight_fences = SyncObjectsNew
    /\ sync_objects = SyncObjectsHandles
    /\ image_available_semaphores = SemaphoresNew
    /\ pending = << >>
    /\ chain = "ok"
    /\ events = 0
    /\ args = NoArgs
    /\ live = NoneLive
    /\ handles = [k \in Kinds |-> << >>]
    /\ presentation_engine = PresentationEngine(FALSE)
    /\ surface_extent = Extent2D(0, 0)
    /\ calls = << >>

\* SwapChain::new is entered with the support details the platform reports
\* and the window size: any of them.
InitSwapChainNew ==
    /\ pc = "swapchain_new"
    /\ \E swapchain_support \in SwapChainSupports : \E size \in Sizes :
         swapchain_new = [swapchain_support |-> swapchain_support,
                          size |-> size, create_info |-> << >>]
    /\ NothingBuilt
    /\ sample_counts = DeviceSampleCounts

\* SwapChain::new: builds the create info from the support details and the
\* size, creates the swapchain and takes the images the driver hands back
\* (the framebuffers are made later, by create_framebuffer).
SwapChainNewCreate ==
    /\ pc = "swapchain_new"
    /\ IF ChooseFormatPanics(swapchain_new.swapchain_support.formats)
       THEN /\ pc' = "panic"
            /\ UNCHANGED << swapchain_new, calls, swapchain >>
       ELSE LET info == SwapchainCreateInfo(swapchain_new.swapchain_support,
                                            swapchain_new.size) IN
            /\ swapchain_new' = [swapchain_new EXCEPT !.create_info = << info >>]
            /\ calls' = Append(calls, "create_swapchain")
            /\ \E outcome \in CreateSwapchainResults(
                                  swapchain_new.swapchain_support, info) :
                 IF outcome = "created"
                 THEN /\ \E n \in SwapchainImages(
                                swapchain_new.swapchain_support.capabilities) :
                           swapchain' = [SwapChainNew(0, n, info)
                                            EXCEPT !.framebuffers = 0]
                      /\ pc' = "swapchain_created"
                 ELSE /\ pc' = "panic"
                      /\ UNCHANGED swapchain
    /\ UNCHANGED << from, current_frame, is_framebuffer_resized, image_index,
                    image_gen, acquired, result, present_reported,
                    acquire_reported, in_flight_fences, pending, targets,
                    buffers, recorded, chain, events, args, live,
                    surface_extent, sync_objects, command_buffers,
                    per_image, handles, presentation_engine,
                    image_available_semaphores, waited, sample_counts >>

NextSwapChainNew == SwapChainNewCreate

SpecSwapChainNew == InitSwapChainNew /\ [][NextSwapChainNew]_vars

\* SwapChain::new for every list of formats and of present modes: at
\* startup, where GraphicDevice::new picks the physical device first, and at
\* a re-creation, where SwapChain::new is called right away.
InitSwapChainLists ==
    /\ pc \in {"pick_physical_device", "swapchain_new"}
    /\ \E swapchain_support \in SwapChainSupportLists :
         swapchain_new = [swapchain_support |-> swapchain_support,
                          size |-> WindowSize, create_info |-> << >>]
    /\ NothingBuilt
    /\ sample_counts = DeviceSampleCounts

\* GraphicDevice::pick_physical_device: panics ("Failed to find a suitable
\* GPU!") unless is_physical_device_suitable holds for the device.
PickPhysicalDevice ==
    /\ pc = "pick_physical_device"
    /\ calls' = Append(calls, "pick_physical_device")
    /\ pc' = IF is_swapchain_supported(swapchain_new.swapchain_support)
             THEN "swapchain_new"
             ELSE "panic"
    /\ UNCHANGED << from, current_frame, is_framebuffer_resized, image_index,
                    image_gen, acquired, result, present_reported,
                    acquire_reported, in_flight_fences, pending, swapchain,
                    targets, buffers, recorded, chain, events, args, live,
                    surface_extent, sync_objects, swapchain_new,
                    command_buffers, per_image, handles,
                    presentation_engine, image_available_semaphores,
                    waited, sample_counts >>

NextSwapChainLists ==
    \/ PickPhysicalDevice
    \/ SwapChainNewCreate

SpecSwapChainLists == InitSwapChainLists /\ [][NextSwapChainLists]_vars

\* Renderer::new is about to choose the sample count, on a device with any
\* pair of sample-count masks.
InitSampleCount ==
    /\ pc = "get_max_usable_sample_count"
    /\ \E color \in SampleCountMasks : \E depth \in SampleCountMasks :
         sample_counts = [color |-> color, depth |-> depth, chosen |-> << >>]
    /\ swapchain_new = NoSwapChainNew
    /\ NothingBuilt

\* let msaa_samples = Self::get_max_usable_sample_count(&instance,
\* device.physical);
GetMaxUsableSampleCount ==
    /\ pc = "get_max_usable_sample_count"
    /\ pc' = "sample_count_chosen"
    /\ sample_counts' =
          [sample_counts EXCEPT !.chosen =
              << get_max_usable_sample_count(sample_counts.color,
                                             sample_counts.depth) >>]
    /\ calls' = Append(calls, "get_max_usable_sample_count")
    /\ UNCHANGED << from, current_frame, is_framebuffer_resized, image_index,
                    image_gen, acquired, result, present_reported,
                    acquire_reported, in_flight_fences, pending, swapchain,
                    targets, buffers, recorded, chain, events, args, live,
                    surface_extent, sync_objects, swapchain_new,
                    command_buffers, per_image, handles,
                    presentation_engine, image_available_semaphores,
                    waited >>

NextSampleCount == GetMaxUsableSampleCount

SpecSampleCount == InitSampleCount /\ [][NextSampleCount]_vars

Next ==
    \/ DrawBegin
    \/ WaitForFences
    \/ AcquireNextImage
    \/ UpdateUniformBuffer
    \/ ResetFences
    \/ QueueSubmit
    \/ QueuePresent
    \/ Advance
    \/ RecreateWaitIdle
    \/ CleanupSwapchain
    \/ RecreateSwapchain
    \/ Record
    \/ ResizeFramebuffer
    \/ DestroyBegin
    \/ DestroyWaitIdle
    \/ DestroyRest
    \/ GpuComplete
    \/ SurfaceChange

Spec == Init /\ [][Next]_vars

\* The GPU completes what has been submitted to it, and a wait_for_fences
\* whose fence is signaled returns (the timeout is u64::MAX).
Fairness ==
    /\ WF_vars(GpuComplete)
    /\ WF_vars(WaitForFences /\ waited' = "SUCCESS")

SpecFair == Spec /\ Fairness

\* The owner keeps calling draw (the event loop draws on every
\* RedrawRequested), and draw, being straight-line code, goes from each call
\* to the next.
TickFairness ==
    /\ WF_vars(DrawBegin)
    /\ WF_vars(AcquireNextImage)
    /\ WF_vars(UpdateUniformBuffer)
    /\ WF_vars(ResetFences)
    /\ WF_vars(QueueSubmit)
    /\ WF_vars(QueuePresent)

SpecTicks == Spec /\ Fairness /\ TickFairness

\* Renderer on a platform whose presentation engine defers the semaphore
\* waits of the presents.
InitPresent ==
    /\ InitTargets
    /\ per_image = 0
    /\ presentation_engine = PresentationEngine(TRUE)

NextPresent ==
    \/ Next
    \/ PresentWait

SpecPresent == InitPresent /\ [][NextPresent]_vars

\* The tick and the rebuild of App (draw_frame, recreate_swapchain), which
\* make the calls of Renderer's in the same order.
SpecApp == InitApp /\ [][Next]_vars

\* ------------------------------------------------------------------ claims

RebuildPcs == {"recreate_wait", "cleanup", "construct"}

\* The rebuild has ended in the panic of SwapChain::new: create_swapchain
\* has failed on the extent of a minimized window.
RebuildFailed ==
    /\ pc = "panic"
    /\ Len(calls) > 0
    /\ calls[Len(calls)] = "create_swapchain"
    /\ ~swapchain.alive

DestroyCallSet == {CleanupCalls[i] : i \in 1 .. Len(CleanupCalls)}

\* No queue_submit and no queue_present in the log s from position i on.
NoQueueWorkFrom(s, i) ==
    \A j \in i .. Len(s) : s[j] \notin {"queue_submit", "queue_present"}

\* C1: the slot index is always within [0, K); draw reaches its queue
\* submission only after its fence wait of this tick has returned, and at the
\* submission no earlier submission made on that slot is still pending, so
\* no two pending submissions share a slot (and its fence).
C1_SubmitAfterFenceWait ==
    /\ current_frame \in Slots
    /\ pc \in {"reset", "submit"} =>
         /\ Called("wait_for_fences")
         /\ \A i \in 1 .. Len(pending) : pending[i].slot # current_frame
    /\ \A i, j \in 1 .. Len(pending) :
         pending[i].slot \in Slots /\ (pending[i].slot = pending[j].slot => i = j)

\* Slot 0 is about to be submitted again while the submission of slot 1,
\* made after the previous use of slot 0, is still pending.
C1_Witness ==
    /\ pc = "submit"
    /\ current_frame = 0
    /\ Len(pending) = 1
    /\ pending[1].slot = 1

\* C2: at most K = MAX_FRAMES_IN_FLIGHT submissions are in flight (submitted,
\* completion fence not yet signaled) in every reachable state.
C2_FramesInFlightBounded == Len(pending) <= MAX_FRAMES_IN_FLIGHT

\* K frames are in flight after a rebuild.
C2_Witness == Len(pending) = MAX_FRAMES_IN_FLIGHT /\ swapchain.gen >= 1

\* C3: cleanup_swapchain runs only with the device idle: device_wait_idle is
\* the last queue-related call before it, with no submit or present in
\* between, and nothing is pending on the GPU while the target-dependent
\* resources are being destroyed or are gone.
C3_TeardownAfterIdle ==
    /\ pc = "cleanup" =>
         /\ pending = << >>
         /\ Called("device_wait_idle")
         /\ NoQueueWorkFrom(calls, LastIndexOf(calls, "device_wait_idle"))
    /\ ~swapchain.alive => pending = << >>
    /\ \A i \in 1 .. Len(calls) :
         calls[i] \in DestroyCallSet =>
            LET w == LastIndexOf(SubSeq(calls, 1, i), "device_wait_idle") IN
            w > 0 /\ NoQueueWorkFrom(SubSeq(calls, 1, i), w)

\* A teardown in a tick that had submitted and presented a frame.
C3_Witness ==
    /\ pc = "construct"
    /\ from = "present"
    /\ Called("queue_submit")
    /\ Called("destroy_swapchain")

\* C4: whenever the target-dependent resources exist (after startup and
\* after every rebuild) the numbers of command buffers, framebuffers, image
\* views and swapchain images are equal.
C4_CountsEqual ==
    swapchain.alive =>
        /\ buffers = swapchain.framebuffers
        /\ swapchain.framebuffers = swapchain.imageviews
        /\ swapchain.imageviews = swapchain.images

\* A rebuild went from a swapchain of at least three images to one of two.
C4_Witness ==
    /\ swapchain.alive
    /\ swapchain.gen > image_gen
    /\ image_index = 2
    /\ swapchain.images = 2
    /\ buffers = 2

\* C5: from acquire to present the image index is an index of the current
\* swapchain's images and of the command-buffer list, and the swapchain it
\* was acquired from is still the current, live one.
C5_ImageIndexValid ==
    pc \in {"update", "reset", "submit", "present"} =>
        /\ image_index \in 0 .. (swapchain.images - 1)
        /\ image_index \in 0 .. (buffers - 1)
        /\ image_gen = swapchain.gen
        /\ swapchain.alive

\* The last image of a rebuilt three-image swapchain is about to be presented.
C5_Witness ==
    /\ pc = "present"
    /\ swapchain.gen >= 1
    /\ swapchain.images = 3
    /\ image_index = 2

\* C6: in a tick whose acquire returned ERROR_OUT_OF_DATE_KHR there is no
\* uniform update, fence reset, submit or present; the tick only rebuilds,
\* and when it has returned exactly one rebuild has run and every command
\* buffer of the new swapchain's image count is recorded (the rebuild ends
\* in a panic instead when create_swapchain fails).
C6_StaleAcquireRebuildsAndReturns ==
    acquired = "ERROR_OUT_OF_DATE_KHR" =>
        /\ pc \in RebuildPcs \cup {"idle"} \/ RebuildFailed
        /\ ~Called("update_uniform_buffer")
        /\ ~Called("reset_fences")
        /\ ~Called("queue_submit")
        /\ ~Called("queue_present")
        /\ pc = "idle" =>
             /\ CountCalls("device_wait_idle") = 1
             /\ CountCalls("destroy_swapchain") = 1
             /\ CountCalls("create_swapchain") = 1
             /\ CountCalls("record") = 1
             /\ swapchain.alive
             /\ buffers = swapchain.images
             /\ recorded = swapchain.images

\* A tick returned after a stale acquire with a rebuilt three-image swapchain.
C6_Witness ==
    /\ acquired = "ERROR_OUT_OF_DATE_KHR"
    /\ pc = "idle"
    /\ swapchain.images = 3
    /\ recorded = 3

\* C7: the step that ends a tick advances current_frame by one modulo K when
\* the tick reached present and leaves it unchanged otherwise (the return
\* after a stale acquire); no other step changes current_frame.
C7_SlotAdvance ==
    [][ /\ (pc # "idle" /\ pc' = "idle") =>
             current_frame' = IF Called("queue_present")
                              THEN (current_frame + 1) % MAX_FRAMES_IN_FLIGHT
                              ELSE current_frame
        /\ (pc = "idle" \/ pc' # "idle") => current_frame' = current_frame
      ]_vars

\* A tick that rebuilt after present has ended on slot 1.
C7_Witness ==
    /\ pc = "idle"
    /\ current_frame = 1
    /\ Called("queue_present")
    /\ Called("create_swapchain")

\* C8 as stated: after present returned out-of-date the tick does not
\* rebuild; it leaves the resize flag set for the next tick.
C8_DeferredRebuild ==
    result = "ERROR_OUT_OF_DATE_KHR" =>
        /\ pc \notin RebuildPcs
        /\ ~Called("device_wait_idle")
        /\ pc = "advance" => is_framebuffer_resized

\* C8 amended: after present returned out-of-date the same tick rebuilds
\* before it advances the slot: the flag is cleared, the rebuild follows the
\* present call, and the tick ends on a new swapchain generation; and no
\* tick rebuilds before its acquire.
C8_RebuildInSameTick ==
    /\ result = "ERROR_OUT_OF_DATE_KHR" =>
         /\ pc \in RebuildPcs \cup {"advance", "idle"} \/ RebuildFailed
         /\ pc \in RebuildPcs \cup {"advance"} => ~is_framebuffer_resized
         /\ pc \in {"advance", "idle"} =>
              /\ swapchain.alive
              /\ swapchain.gen = image_gen + 1
              /\ CountCalls("create_swapchain") = 1
              /\ LastIndexOf(calls, "queue_present")
                    < FirstIndexOf(calls, "device_wait_idle")
    /\ pc = "acquire" => calls = << "wait_for_fences" >>

\* The tick whose present returned out-of-date has rebuilt and is about to
\* advance the slot.
C8_Witness ==
    /\ result = "ERROR_OUT_OF_DATE_KHR"
    /\ pc = "advance"
    /\ swapchain.gen = image_gen + 1

\* C9: a swapchain that present has reported out-of-date is only ever torn
\* down and replaced: the CPU is in the rebuild as long as that swapchain is
\* the current one, so no acquire (and no other draw call) is issued on it.
C9_NoAcquireOnStaleSwapchain ==
    present_reported = "ERROR_OUT_OF_DATE_KHR" =>
        /\ pc \in RebuildPcs \/ RebuildFailed
        /\ from = "present"
        /\ Called("queue_present")
        /\ pc \in RebuildPcs => ~Called("create_swapchain")

\* Present reported out-of-date, the rebuild is complete, the next acquire
\* will see the new swapchain.
C9_Witness ==
    /\ result = "ERROR_OUT_OF_DATE_KHR"
    /\ pc = "idle"
    /\ swapchain.alive
    /\ present_reported = "none"
    /\ chain = "ok"

\* C10 as stated: a present that reports the swapchain suboptimal triggers
\* the rebuild just as an out-of-date present does.
C10_SuboptimalPresentRebuilds ==
    result = "SUBOPTIMAL_KHR" =>
        \/ pc \in RebuildPcs
        \/ (pc \in {"advance", "idle"} /\ swapchain.gen = image_gen + 1)

TeardownLog == SelectSeq(calls, LAMBDA c : c \in DestroyCallSet)

\* The call a precedes the call b in the log, and each was made once.
OnceAndBefore(a, b) ==
    /\ CountCalls(a) = 1
    /\ CountCalls(b) = 1
    /\ FirstIndexOf(calls, a) < FirstIndexOf(calls, b)

\* C12 as stated: every teardown frees the command buffers, destroys the
\* framebuffers, the pipeline, the render pass, then the depth and color
\* attachment images, then the image views and the swapchain; the attachment
\* images go after the framebuffers that bind them.
C12_TeardownReverseOfConstruction ==
    Called("destroy_swapchain") =>
        /\ OnceAndBefore("free_command_buffers", "destroy_framebuffers")
        /\ OnceAndBefore("destroy_framebuffers", "destroy_pipeline")
        /\ OnceAndBefore("destroy_pipeline", "destroy_render_pass")
        /\ OnceAndBefore("destroy_render_pass", "destroy_depth_image")
        /\ OnceAndBefore("destroy_render_pass", "destroy_color_image")
        /\ OnceAndBefore("destroy_depth_image", "destroy_image_views")
        /\ OnceAndBefore("destroy_color_image", "destroy_image_views")
        /\ OnceAndBefore("destroy_image_views", "destroy_swapchain")

\* C12 amended: every teardown, on rebuild and on shutdown, destroys the
\* depth image, the color image, then frees the command buffers, destroys
\* the framebuffers, the pipeline, the render pass, the image views and the
\* swapchain, each once and in this order, after the idle wait: the
\* attachment images go before the framebuffers that bind them.
C12_TeardownOrder ==
    (\E c \in DestroyCallSet : Called(c)) =>
        /\ TeardownLog =
              << "destroy_depth_image", "destroy_color_image",
                 "free_command_buffers", "destroy_framebuffers",
                 "destroy_pipeline", "destroy_render_pass",
                 "destroy_image_views", "destroy_swapchain" >>
        /\ FirstIndexOf(calls, "device_wait_idle")
              < FirstIndexOf(calls, "destroy_depth_image")
        /\ \/ pc \in {"construct", "destroy_rest", "destroyed", "advance",
                    "idle"}
           \/ RebuildFailed

\* The teardown of a rebuild that followed a present has run and the
\* construction has not begun.
C12_Witness ==
    /\ pc = "construct"
    /\ from = "present"
    /\ Called("destroy_swapchain")
    /\ ~swapchain.alive

\* The creation calls of the target-dependent resources in the log, in the
\* order they were made.
ConstructLog ==
    SelectSeq(calls, LAMBDA c :
        c \in {RecreateCalls[i] : i \in 1 .. Len(RecreateCalls)})

\* C13 as stated: every rebuild, and the startup, creates the swapchain,
\* then the attachment images, the render pass, the framebuffers, the
\* pipeline, and records the command buffers last.
C13_ConstructionOrderAsStartup ==
    Called("create_swapchain") =>
        /\ OnceAndBefore("create_swapchain", "create_color_image")
        /\ OnceAndBefore("create_swapchain", "create_depth_image")
        /\ OnceAndBefore("create_color_image", "create_render_pass")
        /\ OnceAndBefore("create_depth_image", "create_render_pass")
        /\ OnceAndBefore("create_render_pass", "create_framebuffers")
        /\ OnceAndBefore("create_framebuffers", "create_pipeline")
        /\ Called("record") => OnceAndBefore("create_pipeline", "record")

\* C13 amended: every rebuild creates the swapchain and its image views,
\* the render pass, the pipeline, the color and depth attachment images, the
\* framebuffers, allocates the command buffers and records them, in this
\* order; the startup creates the swapchain, the attachment images, the
\* render pass, the framebuffers, the pipeline and allocates the command
\* buffers, in this other order, and records nothing.
C13_ConstructionOrder ==
    (Called("create_swapchain") /\ ~RebuildFailed) =>
        IF Called("device_wait_idle")
        THEN /\ ConstructLog =
                   << "create_swapchain", "create_image_views",
                      "create_render_pass", "create_pipeline",
                      "create_color_image", "create_depth_image",
                      "create_framebuffers", "allocate_command_buffers",
                      "record" >>
             /\ LastIndexOf(calls, "destroy_swapchain")
                   < FirstIndexOf(calls, "create_swapchain")
             /\ swapchain.gen > 0
        ELSE /\ ConstructLog =
                   << "create_swapchain", "create_image_views",
                      "create_color_image", "create_depth_image",
                      "create_render_pass", "create_framebuffers",
                      "create_pipeline", "allocate_command_buffers" >>
             /\ swapchain.gen = 0

\* A rebuild has constructed the second swapchain generation after a first
\* rebuild, and the tick is about to advance.
C13_Witness ==
    /\ pc = "advance"
    /\ swapchain.gen = 2
    /\ swapchain.alive
    /\ Called("record")
    /\ recorded = RecordCount(buffers)

\* C14 as stated: in a tick that reaches present the fence of the slot is
\* reset before the acquire call: wait, reset, acquire, submit, present.
C14_ResetBeforeAcquire ==
    Called("queue_present") =>
        /\ OnceAndBefore("wait_for_fences", "reset_fences")
        /\ OnceAndBefore("reset_fences", "acquire_next_image")
        /\ OnceAndBefore("acquire_next_image", "queue_submit")
        /\ OnceAndBefore("queue_submit", "queue_present")

\* C14 amended: a tick that reaches present has made exactly the calls wait
\* on the fence of the slot, acquire, uniform update, reset of that fence,
\* submit, present, in this order: the reset follows the acquire and directly
\* precedes the submit. A tick that leaves draw at a stale acquire has
\* therefore not reset the fence: the fence of the slot is still signaled.
C14_DrawOrder ==
    /\ Called("queue_present") =>
          SubSeq(calls, 1, 6) =
             << "wait_for_fences", "acquire_next_image",
                "update_uniform_buffer", "reset_fences", "queue_submit",
                "queue_present" >>
    /\ Called("reset_fences") =>
          OnceAndBefore("acquire_next_image", "reset_fences")
    /\ acquired = "ERROR_OUT_OF_DATE_KHR" =>
          /\ ~Called("reset_fences")
          /\ in_flight_fences[current_frame]

\* A tick on the second slot has returned from present with success, with a
\* submission of the other slot still in flight.
C14_Witness ==
    /\ pc = "advance"
    /\ result = "SUCCESS"
    /\ current_frame = 1
    /\ Len(calls) = 6
    /\ Len(pending) = 2

\* The positions of the CPU inside a tick, from the first call of draw to the
\* slot advance.
TickPcs ==
    {DrawOrder[i] : i \in 1 .. Len(DrawOrder)} \cup RebuildPcs
        \cup {"advance", "panic"}

\* C15: within a tick every synchronization object draw has passed (the
\* fence waited on and reset, the semaphore given to acquire, the semaphores
\* and the fence of the submit, the semaphore present waits on) is the one of
\* the slot current_frame, and the command buffer submitted and the image
\* presented are those of the acquired image index; the GPU signals the fence
\* of the slot the submission was made for.
C15_SlotAndImageIndices ==
    /\ pc \in TickPcs =>
          /\ \A f \in {"wait_fence", "acquire_semaphore", "reset_fence",
                        "wait_semaphore", "signal_semaphore", "submit_fence",
                        "present_semaphore"} :
                args[f] \in {NoImage, current_frame}
          /\ \A f \in {"command_buffer", "present_image"} :
                args[f] \in {NoImage, image_index}
          /\ Called("queue_submit") =>
                /\ args.submit_fence = current_frame
                /\ args.wait_semaphore = args.acquire_semaphore
                /\ args.command_buffer = image_index
                /\ image_index # NoImage
          /\ Called("queue_present") =>
                /\ args.present_semaphore = args.signal_semaphore
                /\ args.present_image = args.command_buffer
    /\ \A i \in 1 .. Len(pending) :
          /\ pending[i].slot \in Slots
          /\ ~in_flight_fences[pending[i].slot]

\* A tick on slot 0 has submitted and presented image 2 of a swapchain of
\* three images: the image index is no slot index.
C15_Witness ==
    /\ pc = "advance"
    /\ current_frame = 0
    /\ image_index = MAX_FRAMES_IN_FLIGHT
    /\ swapchain.images > MAX_FRAMES_IN_FLIGHT
    /\ args.command_buffer = image_index
    /\ args.present_image = image_index
    /\ args.submit_fence = current_frame
    /\ args.present_semaphore = current_frame

\* C16 as stated: the CPU write of a tick (update_uniform_buffer) never
\* writes a copy of the uniform data that a submission still in flight (its
\* fence unsignaled) reads.
C16_NoUniformWriteInFlight ==
    pc = StepAfter("update") =>
        \A i \in 1 .. Len(pending) :
            \/ pending[i].uniform_copy # args.uniform_copy
            \/ in_flight_fences[pending[i].slot]

\* C17: while the swapchain is alive (after startup and after every
\* rebuild) the framebuffers are created for the current render pass and
\* bind three attachments that match its declaration in order, format and
\* sample count: the multisampled color image, the depth image, and the
\* swapchain image view as the single-sample resolve target; and the
\* framebuffer dimensions, both attachment images, the viewport, the scissor
\* and, once the command buffers are recorded, the render area all equal
\* the swapchain extent.
C17_AttachmentsMatchPassAndExtent ==
    swapchain.alive =>
        LET fb == targets.framebuffer
            rp == targets.render_pass
        IN  /\ fb.render_pass = rp
            /\ targets.pipeline.render_pass = rp
            /\ Len(fb.attachments) = Len(rp)
            /\ \A i \in 1 .. Len(rp) :
                  /\ fb.attachments[i].format = rp[i].format
                  /\ fb.attachments[i].samples = rp[i].samples
                  /\ fb.attachments[i].extent = swapchain.extent
            /\ fb.attachments =
                  << targets.color_image, targets.depth_image,
                     SwapchainImageView(swapchain) >>
            /\ targets.color_image.samples = msaa_samples
            /\ targets.color_image.format = swapchain.format
            /\ fb.attachments[3].samples = "TYPE_1"
            /\ fb.extent = swapchain.extent
            /\ targets.color_image.extent = swapchain.extent
            /\ targets.depth_image.extent = swapchain.extent
            /\ targets.pipeline.viewport = swapchain.extent
            /\ targets.pipeline.scissor = swapchain.extent
            /\ recorded > 0 => targets.render_area = swapchain.extent

\* A tick has ended on a rebuilt swapchain whose extent is not the one of
\* the startup, with every command buffer recorded.
C17_Witness ==
    /\ pc = "idle"
    /\ swapchain.alive
    /\ swapchain.gen = 2
    /\ swapchain.extent = Extent2D(1, 1)
    /\ recorded = swapchain.images
    /\ targets.render_area = swapchain.extent

\* The extent the surface has for SwapChain::new: its current extent, or
\* the window size where the surface leaves the extent to the swapchain.
SurfaceExtent ==
    LET capabilities == swapchain_new.swapchain_support.capabilities IN
    IF capabilities.current_extent = UndefinedExtent
    THEN Extent2D(swapchain_new.size.x, swapchain_new.size.y)
    ELSE capabilities.current_extent

\* C18 as stated: whatever the capabilities and the size, the extent
\* SwapChain::new asks for lies within the minimum and maximum extent, is
\* never 0 x 0 (not for a minimized window either), and the swapchain is
\* created.
C18_ExtentClampedNeverZero ==
    swapchain_new.create_info # << >> =>
        LET capabilities == swapchain_new.swapchain_support.capabilities
            extent == swapchain_new.create_info[1].image_extent
        IN  /\ WithinExtents(extent, capabilities.min_image_extent,
                             capabilities.max_image_extent)
            /\ extent.width > 0
            /\ extent.height > 0
            /\ pc # "panic"

\* C19: when the extent of the surface lies within the capability bounds,
\* the swapchain is created with exactly that extent, and the image count
\* asked for is at least min_image_count and, where max_image_count is not
\* 0, at most max_image_count.
C19_StartupExtentAndImageCount ==
    (swapchain_new.create_info # << >> /\ pc = "swapchain_created") =>
        LET capabilities == swapchain_new.swapchain_support.capabilities
            info == swapchain_new.create_info[1]
        IN  /\ WithinExtents(SurfaceExtent, capabilities.min_image_extent,
                             capabilities.max_image_extent)
                  => /\ info.image_extent = SurfaceExtent
                     /\ swapchain.extent = SurfaceExtent
            /\ info.min_image_count >= capabilities.min_image_count
            /\ info.min_image_count <= capabilities.min_image_count + 1
            /\ capabilities.max_image_count > 0
                  => info.min_image_count <= capabilities.max_image_count
            /\ swapchain.images >= info.min_image_count

\* A swapchain was created for a surface with a current extent of 2 x 1
\* and a window of another size, with 2 images for a surface that allows 1
\* to 3.
C19_Witness ==
    /\ pc = "swapchain_created"
    /\ swapchain_new.swapchain_support.capabilities.current_extent
          = Extent2D(2, 1)
    /\ swapchain_new.size = [x |-> 1, y |-> 2]
    /\ swapchain.extent = Extent2D(2, 1)
    /\ swapchain_new.swapchain_support.capabilities.min_image_count = 1
    /\ swapchain_new.swapchain_support.capabilities.max_image_count = 3
    /\ swapchain_new.create_info[1].min_image_count = 2

\* What recreate_swapchain leaves for a surface with client area e whose
\* driver hands back n images: the swapchain (its generation aside), the
\* resources that depend on it, the command buffers and their recording.
RebuiltFor(e, n) ==
    \E swapchain_support \in Win32Supports(e) :
        LET sc == SwapChainNew(swapchain.gen, n,
                               SwapchainCreateInfo(swapchain_support,
                                                   WindowSize))
        IN  /\ swapchain = sc
            /\ targets = TargetsNew(sc, RenderArea(sc))
            /\ buffers = AllocateBuffers(sc.framebuffers)
            /\ recorded = RecordCount(buffers)

C21_SyncObjectsOutliveRebuild ==
    /\ [](/\ sync_objects.created = 1
          /\ sync_objects.handles = 0
          /\ sync_objects.destroyed =
                IF \/ pc \in {"destroy_rest", "destroyed"}
                   \/ pc = "cleanup" /\ from = "shutdown"
                THEN 1 ELSE 0)
    /\ [][(pc \in RebuildPcs /\ from # "shutdown") =>
            (sync_objects' = sync_objects /\ current_frame' = current_frame)]_vars

\* The renderer has been shut down after two rebuilds, with slot 1 next.
C21_Witness ==
    /\ pc = "destroyed"
    /\ swapchain.gen = 2
    /\ current_frame = 1
    /\ sync_objects.destroyed = 1

\* C22 as stated: whenever the format list or the present-mode list of the
\* surface is empty, at startup or at a re-creation, SwapChain::new ends in
\* a panic and no swapchain is created.
C22_EmptyListsFatal ==
    LET swapchain_support == swapchain_new.swapchain_support IN
    (/\ pc \notin {"pick_physical_device", "swapchain_new"}
     /\ \/ Len(swapchain_support.formats) = 0
        \/ Len(swapchain_support.present_modes) = 0)
        => (pc = "panic" /\ ~swapchain.alive)

\* The format SwapChain::new has put into the create info.
ChosenFormat ==
    SurfaceFormat(swapchain_new.create_info[1].image_format,
                  swapchain_new.create_info[1].image_color_space)

C24_OneSwapchainAlive ==
    /\ live["swapchain"] = (IF swapchain.alive THEN 1 ELSE 0)
    /\ live["image_views"] = (IF swapchain.alive THEN 1 ELSE 0)
    /\ (swapchain.gen >= 1 \/ RebuildFailed) =>
          \A i \in 1 .. Len(calls) :
             calls[i] = "create_swapchain" =>
                /\ \E j \in 1 .. (i - 1) : calls[j] = "destroy_swapchain"
                /\ \E j \in 1 .. (i - 1) : calls[j] = "destroy_image_views"
    /\ \A i \in 1 .. Len(pending) : pending[i].gen = swapchain.gen
    /\ pc \in {"acquire", "update", "reset", "submit", "present"} =>
          swapchain.alive
    /\ pc \in {"update", "reset", "submit", "present"} =>
          image_gen = swapchain.gen

\* A frame is about to be presented to the swapchain of the second rebuild
\* while the frame before it, submitted to the same swapchain, is in flight.
C24_Witness ==
    /\ pc = "present"
    /\ swapchain.gen = 2
    /\ image_gen = 2
    /\ Len(pending) = 2
    /\ live["swapchain"] = 1

\* C25: the fence wait at the start of a tick is blocked only while a
\* submission made on the slot of the tick is still pending; on a slot that
\* has nothing pending (never used, or its last submission completed) the
\* fence is signaled and the wait returns at once.
C25_FenceWaitBlocksOnlyOnPending ==
    pc = "fence_wait" =>
        (FenceWaitDone(in_flight_fences, current_frame)
            <=> \A i \in 1 .. Len(pending) : pending[i].slot # current_frame)

\* The tick on slot 0 is blocked in its fence wait behind the submission the
\* previous tick on slot 0 made, the one of slot 1 having completed.
C25_Witness ==
    /\ pc = "fence_wait"
    /\ current_frame = 0
    /\ ~in_flight_fences[0]
    /\ in_flight_fences[1]
    /\ Len(pending) = 1
    /\ pending[1].slot = 0

\* The commands record() is to put into every command buffer after the
\* begin of the render pass: the pipeline, then per drawable its buffers,
\* its descriptor set, its transform and one indexed draw, then the end.
AfterBeginRenderPass ==
    << "bind_pipeline",
       "bind_vertex_and_index_buffer", "bind_descriptor_sets",
       "push_constants", "draw_indexed",
       "bind_vertex_and_index_buffer", "bind_descriptor_sets",
       "push_constants", "draw_indexed",
       "end_render_pass", "end_command_buffer" >>

\* C26: once record has run, there is one recorded command buffer per index
\* of the command-buffer list; buffer i begins the render pass on framebuffer
\* i with the extent of the current swapchain and the fixed clear values
\* (opaque black, depth 1), binds the pipeline, then for the first and for
\* the second drawable binds its resources and issues one indexed draw, and
\* ends the render pass; the buffers differ in the framebuffer only, and
\* every framebuffer is used by exactly one of them.
C26_RecordedSequence ==
    (swapchain.alive /\ recorded = buffers) =>
        /\ DOMAIN command_buffers = 0 .. (buffers - 1)
        /\ \A i \in DOMAIN command_buffers :
              LET cb == command_buffers[i] IN
              /\ Len(cb) = 2 + Len(AfterBeginRenderPass)
              /\ cb[1].cmd = "begin_command_buffer"
              /\ cb[2] = [cmd |-> "begin_render_pass", framebuffer |-> i,
                          gen |-> swapchain.gen,
                          extent |-> swapchain.extent,
                          clear_values |->
                             << [color |-> << 0, 0, 0, 1 >>],
                                [depth |-> 1, stencil |-> 0] >>]
              /\ \A k \in 1 .. Len(AfterBeginRenderPass) :
                    cb[2 + k].cmd = AfterBeginRenderPass[k]
              /\ cb[4].mesh = "mesh" /\ cb[7].mesh = "mesh"
              /\ cb[8].mesh = "mesh2" /\ cb[11].mesh = "mesh2"
              /\ cb[7].instance_count = 1 /\ cb[11].instance_count = 1
              /\ cb[5].set # cb[9].set
              /\ cb[6].transform # cb[10].transform
              /\ \A j \in DOMAIN command_buffers :
                    SubSeq(command_buffers[j], 3, Len(command_buffers[j]))
                        = SubSeq(cb, 3, Len(cb))
        /\ \A f \in 0 .. (swapchain.framebuffers - 1) :
              Cardinality({i \in DOMAIN command_buffers :
                              command_buffers[i][2].framebuffer = f}) = 1

\* The three command buffers of a rebuilt swapchain of three images are
\* recorded for the extent 1 x 1 of the new surface.
C26_Witness ==
    /\ swapchain.alive
    /\ swapchain.gen = 1
    /\ buffers = 3
    /\ recorded = 3
    /\ command_buffers[2][2].framebuffer = 2
    /\ command_buffers[2][2].extent = Extent2D(1, 1)

\* C27: between ticks, also after a tick that returned early on a stale
\* acquire, the fence of every slot is signaled or a pending submission will
\* signal it; hence, the GPU completing its work, every fence wait at the
\* start of a tick returns.
C27_FenceWaitReturns ==
    /\ [](pc \in {"idle", "fence_wait"} =>
            \A s \in Slots :
               \/ in_flight_fences[s]
               \/ \E i \in 1 .. Len(pending) : pending[i].slot = s)
    /\ (pc = "fence_wait") ~> (pc # "fence_wait")

\* A tick has returned early on a stale acquire, after the rebuild, without
\* a submission; the fence of its slot, which the next tick waits for, is
\* signaled.
C27_Witness ==
    /\ pc = "idle"
    /\ acquired = "ERROR_OUT_OF_DATE_KHR"
    /\ Called("create_swapchain")
    /\ ~Called("queue_submit")
    /\ current_frame = 1
    /\ in_flight_fences[1]

\* C28 as stated: in App, whatever image count a rebuild ends with, every
\* framebuffer index (create_command_buffers binds descriptor_sets[i] for
\* framebuffer i) and every acquired image index (update_uniform_buffer maps
\* uniformbuffer.memory[image_index]) is an index into the uniform buffers
\* and descriptor sets made at startup.
C28_PerImageIndicesInRange ==
    (per_image > 0 /\ swapchain.alive) =>
        /\ \A i \in 0 .. (swapchain.framebuffers - 1) : i < per_image
        /\ image_index # NoImage => image_index < per_image

\* C29: no target-dependent handle is destroyed twice; a handle is destroyed
\* by the time its successor is created; after the shutdown every handle
\* ever created has been destroyed exactly once; and whatever is acquired
\* from, recorded, submitted, presented or in flight on the GPU uses the
\* handles of the current generation, which are not destroyed.
C29_HandlesDestroyedOnce ==
    /\ \A k \in Kinds : \A g \in 1 .. Len(handles[k]) :
          /\ handles[k][g] <= 1
          /\ g < Len(handles[k]) => handles[k][g] = 1
          /\ pc = "destroyed" => handles[k][g] = 1
    /\ (\/ pc \in {"acquire", "update", "reset", "submit", "present"}
        \/ pending # << >>
        \/ recorded > 0) =>
          /\ \A k \in Kinds :
                /\ Len(handles[k]) = swapchain.gen + 1
                /\ handles[k][swapchain.gen + 1] = 0
          /\ \A i \in 1 .. Len(pending) : pending[i].gen = swapchain.gen
          /\ pc \in {"update", "reset", "submit", "present"} =>
                image_gen = swapchain.gen

\* The shutdown has ended after two rebuilds: three generations of
\* handles, each destroyed once.
C29_Witness ==
    /\ pc = "destroyed"
    /\ swapchain.gen = 2
    /\ \A k \in Kinds : handles[k] = << 1, 1, 1 >>

\* C30: a submit never signals the render-finished semaphore of a slot while
\* a present queued in an earlier use of the slot still waits on it: the
\* fence wait of the slot is enough for the wait of the previous present to
\* have executed, whatever the image count and the presentation engine.
C30_SemaphoreNotResignaledWhileWaitedOn ==
    [][(pc = "submit" /\ pc' = StepAfter("submit")) =>
           (args'.signal_semaphore
               \notin WaitedSemaphores(presentation_engine))]_vars

\* C31: acquire is handed the image-available semaphore of the slot only
\* when it is unsignaled and nothing waits on it. A tick whose acquire
\* returned an image makes exactly one submit, which waits on that
\* semaphore; a tick whose acquire was stale makes none and leaves the
\* semaphore unsignaled. Between ticks and in a rebuild no image-available
\* semaphore is signaled.
C31_ImageAvailableSemaphore ==
    /\ \A s \in Slots : image_available_semaphores[s] # "invalid"
    /\ pc = "acquire" =>
          image_available_semaphores[PerSlot(current_frame, image_index)]
              = "unsignaled"
    /\ (pc \in {"advance", "idle"} \cup RebuildPcs
            \cup {"destroy_wait", "destroy_rest", "destroyed"}) =>
          /\ \A s \in Slots : image_available_semaphores[s] # "signaled"
          /\ Called("acquire_next_image") /\ AshAcquireNextImage(acquired).ok =>
                /\ CountCalls("queue_submit") = 1
                /\ args.wait_semaphore = args.acquire_semaphore
          /\ Called("acquire_next_image") /\ ~AshAcquireNextImage(acquired).ok =>
                /\ CountCalls("queue_submit") = 0
                /\ image_available_semaphores[args.acquire_semaphore]
                       = "unsignaled"

\* Slot 0 is used for the second time, after a stale acquire and a rebuild
\* in between: its semaphore has been signaled and waited on once and is
\* handed to acquire again.
C31_Witness ==
    /\ pc = "acquire"
    /\ current_frame = 0
    /\ swapchain.gen = 1
    /\ image_available_semaphores[1] = "waited"
    /\ image_available_semaphores[0] = "unsignaled"

\* C32: a command buffer that draw submits has been recorded since the
\* buffers were last allocated, and what is recorded in it names the
\* framebuffer of its index, the render pass and the pipeline of the
\* current generation, none of them destroyed. After a rebuild this holds
\* without any call of record by the owner; on the swapchain of the startup
\* it holds once the owner has called record.
C32_SubmittedBufferRecorded ==
    [][(pc = "submit" /\ pc' = StepAfter("submit")
          /\ (swapchain.gen > 0 \/ recorded > 0)) =>
         (LET cb == args'.command_buffer IN
          /\ recorded = buffers
          /\ cb \in DOMAIN command_buffers
          /\ command_buffers[cb] = RecordCommands(cb, swapchain)
          /\ command_buffers[cb][2].framebuffer = cb
          /\ command_buffers[cb][2].gen = swapchain.gen
          /\ command_buffers[cb][3].gen = swapchain.gen
          /\ \A k \in {"framebuffers", "render_pass", "pipeline",
                        "command_buffers"} :
                /\ Len(handles[k]) = swapchain.gen + 1
                /\ handles[k][swapchain.gen + 1] = 0)]_vars

\* The third command buffer of a rebuilt swapchain of three images has been
\* submitted, and only submissions of the new generation are pending.
C32_Witness ==
    /\ pc = "present"
    /\ swapchain.gen = 1
    /\ args.command_buffer = 2
    /\ recorded = 3
    /\ \A i \in 1 .. Len(pending) : pending[i].gen = 1

\* The live objects before the first call of the log: none before
\* Renderer::new, one of each kind before a tick or a shutdown.
LiveBefore ==
    IF swapchain.gen = 0 /\ Called("create_swapchain") THEN NoneLive
    ELSE [k \in Kinds |-> 1]

\* C33: at startup and in every rebuild each creation call is handed only
\* objects that are alive and were created earlier in the same construction:
\* the render pass is created before the pipeline and the framebuffers, the
\* image views and both attachment images before the framebuffers, and
\* swapchain, framebuffers, render pass and pipeline before the recording.
C33_CreatedFromCurrentGeneration ==
    /\ ReferencesCurrent(calls, LiveBefore, {})
    /\ pc # "panic" => LiveAfter(LiveBefore, calls) = live
    /\ (Called("create_pipeline") /\ pc # "panic") =>
          /\ FirstIndexOf(calls, "create_render_pass")
                < FirstIndexOf(calls, "create_pipeline")
          /\ FirstIndexOf(calls, "create_render_pass")
                < FirstIndexOf(calls, "create_framebuffers")
          /\ \A c \in {"create_image_views", "create_color_image",
                        "create_depth_image"} :
                FirstIndexOf(calls, c)
                   < FirstIndexOf(calls, "create_framebuffers")
          /\ Called("record") =>
                \A c \in {"create_swapchain", "create_framebuffers",
                           "create_render_pass", "create_pipeline"} :
                   FirstIndexOf(calls, c) < FirstIndexOf(calls, "record")

\* A rebuild after present has recorded the command buffers of the third
\* generation.
C33_Witness ==
    /\ pc = "advance"
    /\ swapchain.gen = 2
    /\ Called("queue_present")
    /\ Called("record")

\* C34: once resize_framebuffer has set the flag, a rebuild follows, unless
\* the owner shuts down or a call fails fatally; a tick that reaches present
\* with the flag set enters the rebuild right after present, with the flag
\* cleared, and no tick ends after a present with the flag still set.
C34_ResizeLeadsToRebuild ==
    /\ [][(pc = "present" /\ pc' \notin {"present", "panic"}
             /\ is_framebuffer_resized) =>
            (pc' = "recreate_wait" /\ from' = "present"
               /\ ~is_framebuffer_resized')]_vars
    /\ [](pc = "advance" => ~is_framebuffer_resized)
    /\ (is_framebuffer_resized /\ pc = "idle")
          ~> (pc \in RebuildPcs \cup {"panic", "destroy_wait"})

\* The present of the tick succeeded on a swapchain that matches the
\* surface: the rebuild that follows is the one the resize flag asked for.
C34_Witness ==
    /\ pc = "recreate_wait"
    /\ from = "present"
    /\ result = "SUCCESS"
    /\ ~is_framebuffer_resized

\* C35: when a rebuild has completed, after a stale acquire or after
\* present, the resize flag is false: a tick that follows, with an acquire
\* and a present that succeed and without a new notification, does not
\* rebuild.
C35_FlagClearAfterRebuild ==
    [][(pc = "construct" /\ pc' \in {"idle", "advance"}) =>
          ~is_framebuffer_resized']_vars

\* The results draw goes on from: the wait has returned, acquire has returned
\* an image or a stale swapchain, present has returned or reported the
\* swapchain suboptimal or stale.
NotFatal ==
    {"none", "SUCCESS", "SUBOPTIMAL_KHR", "ERROR_OUT_OF_DATE_KHR"}

\* C36: a fence wait that fails, an acquire that returns an error other
\* than out-of-date and a present that returns an error other than
\* out-of-date or suboptimal end the tick in a panic at that call: the call
\* is the last one of the tick, no rebuild is entered, and after the panic
\* nothing is submitted, presented, rebuilt or advanced.
C36_FatalErrorsAbort ==
    /\ [](waited \notin {"none", "SUCCESS"} =>
            /\ pc = "panic"
            /\ calls = << "wait_for_fences" >>)
    /\ [](acquired \notin NotFatal =>
            /\ pc = "panic"
            /\ calls = << "wait_for_fences", "acquire_next_image" >>
            /\ from # "acquire")
    /\ [](result \notin NotFatal =>
            /\ pc = "panic"
            /\ calls[Len(calls)] = "queue_present"
            /\ CountCalls("queue_present") = 1
            /\ ~Called("device_wait_idle")
            /\ from # "present")
    /\ [][pc = "panic" =>
            (/\ pc' = "panic"
             /\ calls' = calls
             /\ current_frame' = current_frame
             /\ swapchain' = swapchain
             /\ Len(pending') <= Len(pending))]_vars

\* The present of the second tick has returned a device error: the tick has
\* ended in the panic, the slot is still the one of the tick.
C36_Witness ==
    /\ pc = "panic"
    /\ result = "ERROR_DEVICE_LOST"
    /\ current_frame = 1
    /\ Len(pending) = 2

\* The destroy calls of the objects the logical device owns: the frame-slot
\* primitives, the target-dependent resources, the descriptor pool, the
\* buffers, meshes and textures, the layouts and the command pool.
DeviceOwned ==
    DestroyCallSet
      \cup {"destroy_sync_objects", "destroy_descriptor_pool",
            "destroy_uniform_buffer", "destroy_set_layouts",
            "destroy_texture", "destroy_command_pool"}
      \cup (IF per_image = 0
            THEN {"destroy_mesh", "destroy_mesh2", "destroy_texture2"}
            ELSE {"destroy_index_buffer", "destroy_vertex_buffer"})

\* C37: a shutdown waits for the device to be idle first, destroys every
\* object the device owns, each once, before the logical device, frees the
\* command buffers before it destroys the command pool, destroys the
\* surface after the swapchain and after the device, and the instance last.
C37_ShutdownOrder ==
    /\ pc \in {"destroy_rest", "destroyed"} =>
          /\ calls[1] = "device_wait_idle"
          /\ CountCalls("device_wait_idle") = 1
          /\ ~Called("queue_submit") /\ ~Called("queue_present")
    /\ pc = "destroyed" =>
          /\ \A c \in DeviceOwned :
                /\ CountCalls(c) = 1
                /\ FirstIndexOf(calls, c) < FirstIndexOf(calls, "destroy_device")
          /\ \A c \in {"destroy_device", "destroy_surface",
                        "destroy_debug_objects", "destroy_instance"} :
                CountCalls(c) = 1
          /\ FirstIndexOf(calls, "free_command_buffers")
                < FirstIndexOf(calls, "destroy_command_pool")
          /\ FirstIndexOf(calls, "destroy_swapchain")
                < FirstIndexOf(calls, "destroy_surface")
          /\ FirstIndexOf(calls, "destroy_device")
                < FirstIndexOf(calls, "destroy_surface")
          /\ calls[Len(calls)] = "destroy_instance"
          /\ live = NoneLive

\* Renderer::destroy has returned after a tick that advanced the slot: the
\* log holds the whole teardown, the device third from the end.
C37_Witness ==
    /\ pc = "destroyed"
    /\ current_frame = 1
    /\ Len(calls) = 2 + Len(CleanupCalls) + Len(DestroyRestCalls)
    /\ calls[Len(calls) - 2] = "destroy_device"

\* C38: for every pair of sample-count masks the chosen count is one
\* sample-count bit, set in the color mask and in the depth mask, and the
\* largest bit set in both (TYPE_1 when they have no larger bit in common).
C38_LargestCommonSampleCount ==
    pc = "sample_count_chosen" =>
        \E i \in CommonBits(sample_counts.color, sample_counts.depth) :
           /\ sample_counts.chosen = << 2 ^ i >>
           /\ \A j \in CommonBits(sample_counts.color, sample_counts.depth) :
                 j <= i

====
